---- MODULE Spec2Model ----
(***************************************************************************)
(* Model of the ETH_WebServer_WebOTA firmware (V4.0): the single session   *)
(* slot (isSessionValid, createSession, destroySession) and the firmware   *)
(* upload handler (handleOTAUpload, findMultipartField, readLine) as they  *)
(* are driven by loop().                                                   *)
(*                                                                         *)
(* Time is counted in ticks of TickMs milliseconds; every clock value of   *)
(* the model is a multiple of TickMs, so that the 32-bit millis() counter  *)
(* (modulus 2^32 ms = 2^25 ticks) and SESSION_TIMEOUT (3600000 ms) are     *)
(* represented exactly.                                                    *)
(***************************************************************************)
EXTENDS Integers, Sequences, FiniteSets, TLC

(* ------------------------------ bounds --------------------------------- *)
\* number of clock advances in one run
MaxTicks == 4
\* length up to which a run of successful validations is counted
MaxStreak == 3
\* number of payload bytes of the short upload bodies
MaxPayLen == 2
\* number of connections accepted in one run of the upload specification
MaxConns == 2
\* the peer's segments end within the first HeadCut or the last TailCut bytes
\* of the body (every offset of a body of at most HeadCut + TailCut bytes)
HeadCut == 26
TailCut == 12
\* key-value requests handled after the filling of the store
MaxOps == 3
\* connections accepted, and hours waited for one, in one run of the parser
\* specification
MaxParsed == 2
\* the last year whose dates the calendar functions are applied to
LastYear == 2099
\* lines before the blank line in the header blocks the parser is fed
MaxLines == 3
\* parts before the firmware part in the bodies findMultipartField is fed
MaxOthers == 2

(* ----------------------------- constants ------------------------------- *)
TickMs == 128
SESSION_TIMEOUT == 3600000 \div TickMs
\* millis() is an unsigned long: 2^32 ms = 2^25 ticks
MillisModulus == 2^25
WIN_SIZE == 128
BUF_SIZE == 1024

\* session tokens: "" is the empty token, the others stand for values of
\* generateSessionId() (t1, t2) and for a token the device never issued (zz)
GeneratedTokens == {"t1", "t2"}
Tokens == GeneratedTokens \cup {"", "zz"}

\* clock advances between two requests, in ticks
Jumps == {1, SESSION_TIMEOUT, MillisModulus - SESSION_TIMEOUT}

\* bytes of the request body
CR == 13
LF == 10
DASH == 45
\* the boundary token of the Content-Type header is the one byte "B"
BB == 66
\* a payload byte "x"
XX == 120
\* a header line's text containing name="update", one symbol
UU == 85
\* a header line's text naming another field, one symbol
OO == 79
\* a further header line of a part (its Content-Type), one symbol
HH == 72
\* the content of a part that is not the firmware
VV == 118

\* the key-value store
MAX_KEYS == 100
MAX_VALUE_LENGTH == 128
\* largest Content-Length the handlers of form and JSON bodies accept
MaxFormBody == 512
\* largest Content-Length handleAPIDeleteKey accepts
MaxKeyBody == 256
\* characters: k, a, 0, space, tab, +, %, ", \, :, {, }, n, r, t
KK == 107
AA == 97
D0 == 48
SP == 32
TAB == 9
PLUS == 43
PCT == 37
QUOTE == 34
BSL == 92
COLON == 58
LBRACE == 123
RBRACE == 125
NN == 110
RR == 114
TT == 116
\* the strings value= and key= and "value" the handlers search the body for
ValueEq == <<118, 97, 108, 117, 101, 61>>
KeyEq == <<107, 101, 121, 61>>
QuotedValue == <<34, 118, 97, 108, 117, 101, 34>>
\* the hourly check of loop(): 3600000 ms
SYNC_INTERVAL == 3600000 \div TickMs
\* the character ;
SEMI == 59
\* texts the parser and the router compare with
GetSp == <<71, 69, 84, 32>>
PostSp == <<80, 79, 83, 84, 32>>
DeleteSp == <<68, 69, 76, 69, 84, 69, 32>>
ContentLengthHdr == <<67, 111, 110, 116, 101, 110, 116, 45, 76, 101, 110, 103, 116, 104, 58, 32>>
ContentTypeHdr == <<67, 111, 110, 116, 101, 110, 116, 45, 84, 121, 112, 101, 58, 32>>
CookieHdr == <<67, 111, 111, 107, 105, 101, 58, 32>>
SessionIdEq == <<115, 101, 115, 115, 105, 111, 110, 73, 100, 61>>
PasswordEq == <<112, 97, 115, 115, 119, 111, 114, 100, 61>>
ADMIN_PASSWORD == <<97, 100, 109, 105, 110, 49, 50, 51>>
MethodGet == <<71, 69, 84>>
MethodPost == <<80, 79, 83, 84>>
MethodDelete == <<68, 69, 76, 69, 84, 69>>
PathRoot == <<47>>
PathLogout == <<47, 108, 111, 103, 111, 117, 116>>
PathLogin == <<47, 108, 111, 103, 105, 110>>
PathDoUpdate == <<47, 100, 111, 117, 112, 100, 97, 116, 101>>
PathApi == <<47, 97, 112, 105, 47>>
PathApiKeys == <<47, 97, 112, 105, 47, 107, 101, 121, 115>>
PathApiTime == <<47, 97, 112, 105, 47, 116, 105, 109, 101>>
PathApiPrint == <<47, 97, 112, 105, 47, 112, 114, 105, 110, 116>>
PathApiInsert == <<47, 97, 112, 105, 47, 105, 110, 115, 101, 114, 116>>
PathApiRemove == <<47, 97, 112, 105, 47, 114, 101, 109, 111, 118, 101>>
MultipartFormData == <<109, 117, 108, 116, 105, 112, 97, 114, 116, 47, 102, 111, 114, 109, 45, 100, 97, 116, 97>>
BoundaryEq == <<98, 111, 117, 110, 100, 97, 114, 121, 61>>
\* the protocol text of a request line, shortened to " H"
Proto == <<32, 72>>
\* numbers of stored entries at which the filling of the store can stop
FillStops == {0, 4, MAX_KEYS}

\* the calendar: the first year of the year loop, the last year whose dates
\* are looked at, the last year named for the long arithmetic, LONG_MAX
FirstYear == 1970
LastLongYear == 2037
MaxLong == 2147483647
COMMA == 44

\* const char* months[]
months == <<<<74, 97, 110>>, <<70, 101, 98>>, <<77, 97, 114>>, <<65, 112, 114>>, <<77, 97, 121>>, <<74, 117, 110>>,
            <<74, 117, 108>>, <<65, 117, 103>>, <<83, 101, 112>>, <<79, 99, 116>>, <<78, 111, 118>>, <<68, 101, 99>>>>
\* "Date: ", and the other text of the time server's answer
DateHdr == <<68, 97, 116, 101, 58, 32>>
DayName == <<84, 117, 101>>
GmtSuffix == <<32, 71, 77, 84>>
StatusLine == <<72, 84, 84, 80, 47, 49, 46, 49, 32, 50, 48, 48, 32, 79, 75>>
\* a month spelled out, and a month name in lower case
LongMonth == <<78, 111, 118, 101, 109, 98, 101, 114>>
UnknownMonth == <<110, 111, 118>>

VARIABLES
  currentSession,  \* the global Session struct
  now,             \* value millis() returns, in ticks
  ticks,           \* number of clock advances so far
  idle,            \* real time since lastActivity was last stamped, in ticks
  chainOK,         \* the session was created and every call with its token
                   \* since then came within SESSION_TIMEOUT of the last stamp
  expired,         \* a call failed on the idle check since the last createSession
  streak,          \* successful validations in a row since createSession, up to MaxStreak
  destroyed,       \* destroySession was called and createSession not since
  prior,           \* the sessionId the last createSession or destroySession replaced
  call             \* the last session operation: name, argument, result, state before

sessVars == <<currentSession, now, ticks, idle, chainOK, expired, streak, destroyed, prior,
              call>>

VARIABLES
  pc,            \* where the device is: "setup", then in loop(): "accept", "parse",
                 \* "route", "find", "payload", "restart"
  conns,         \* connections accepted so far
  req,           \* the parsed request: cookie token, content type, body to come
  sent,          \* body bytes that have arrived at the socket
  pos,           \* body bytes read from the socket
  closed,        \* the peer has closed the connection
  waiting,       \* inside while (!client.available()) delay(1)
  fmf,           \* which readLine call of findMultipartField is running
  line,          \* readLine's out
  written,       \* handleOTAUpload's written
  window,        \* handleOTAUpload's window[0..winLen)
  flash,         \* the bytes handed to Update.write in this upload, in order
  flashEnd,      \* payload-stream offset just past the last byte handed to Update.write
  payStart,      \* pos at which payload streaming began
  lastChunk,     \* the last chunk read by the payload loop and what was written of it
  updState,      \* the Update object: "idle", "running", "ended"
  beginCalls,    \* calls of Update.begin in this upload
  endCalls,      \* calls of Update.end in this upload
  writeOutside,  \* Update.write was called while no update was running
  lastEnd,       \* what Update.end returned in this upload: "none", "ok", "fail"
  response,      \* the response written to the client
  failure,       \* the stage of handleOTAUpload that failed, "none" if none
  dropped        \* the payload loop ended because the client disconnected

connVars == <<pc, conns, req, sent, pos, closed, waiting>>
otaVars == <<fmf, line, written, window, flash, flashEnd, payStart, lastChunk, updState,
             beginCalls, endCalls, writeOutside, lastEnd, response, failure, dropped>>

VARIABLES
  prefs,         \* the "keys" namespace of Preferences: key name -> stored string
  api,           \* the last key-value request handled: what was decoded and answered
  ops,           \* key-value requests handled since the filling of the store ended
  fillRun        \* adds made one after the other from the empty store

storeVars == <<prefs, api, ops, fillRun>>

VARIABLES
  wire,          \* the bytes the client of the connection being parsed sends
  arrived,       \* bytes of wire that have arrived at the socket
  consumed,      \* bytes of wire the parser has read
  peerClosed,    \* the client has closed the connection being parsed
  parser,        \* the locals of loop(): currentLine, currentLineIsBlank, ...
  handler,       \* the handler dispatched for this connection, "none" if none
  replied,       \* status of the response written on this connection, 0 if none
  redirect,      \* the Location and Set-Cookie headers of that response
  stopped,       \* client.stop() was called for this connection
  accepted,      \* connections accepted by the parser so far
  snap           \* session, store and time state when the connection was accepted

parseVars == <<wire, arrived, consumed, peerClosed, parser, handler, replied, redirect,
               stopped, accepted, snap>>

VARIABLES
  timeIsSynced,  \* bool timeIsSynced
  lastSync,      \* static unsigned long lastSync of loop(), in ticks
  clock,         \* the epoch the last settimeofday installed, 0 if none
  sync,          \* the last run of syncTimeViaHTTP: answer met, result, state before
  probe          \* the calendar functions applied to a date: arguments and results

timeVars == <<timeIsSynced, lastSync, clock, sync, probe>>

vars == <<sessVars, connVars, otaVars, storeVars, parseVars, timeVars>>

(* ------------------------------ session -------------------------------- *)
\* Session currentSession; (zero-initialised global)
BootSession == [sessionId |-> "", lastActivity |-> 0, isAuthenticated |-> FALSE]

NoCall == [op |-> "none", tok |-> "", ret |-> FALSE, pre |-> BootSession, at |-> 0,
           idle |-> 0, chainOK |-> FALSE, expired |-> FALSE, streak |-> 0,
           destroyed |-> FALSE, prior |-> ""]

\* unsigned long subtraction now - lastActivity
Elapsed(s, t) == (t - s.lastActivity) % MillisModulus

\* isSessionValid with the idle check written >= instead of >
isSessionValid_ge(s, tok, t) ==
  IF tok = "" THEN [ret |-> FALSE, session |-> s]
  ELSE IF tok # s.sessionId THEN [ret |-> FALSE, session |-> s]
  ELSE IF ~s.isAuthenticated THEN [ret |-> FALSE, session |-> s]
  ELSE IF Elapsed(s, t) >= SESSION_TIMEOUT
       THEN [ret |-> FALSE, session |-> [s EXCEPT !.isAuthenticated = FALSE]]
       ELSE [ret |-> TRUE, session |-> [s EXCEPT !.lastActivity = t]]

\* isSessionValid without the refresh of lastActivity
isSessionValid_norefresh(s, tok, t) ==
  IF tok = "" THEN [ret |-> FALSE, session |-> s]
  ELSE IF tok # s.sessionId THEN [ret |-> FALSE, session |-> s]
  ELSE IF ~s.isAuthenticated THEN [ret |-> FALSE, session |-> s]
  ELSE IF Elapsed(s, t) > SESSION_TIMEOUT
       THEN [ret |-> FALSE, session |-> [s EXCEPT !.isAuthenticated = FALSE]]
       ELSE [ret |-> TRUE, session |-> s]

\* isSessionValid without isAuthenticated = false on timeout
isSessionValid_nolatch(s, tok, t) ==
  IF tok = "" THEN [ret |-> FALSE, session |-> s]
  ELSE IF tok # s.sessionId THEN [ret |-> FALSE, session |-> s]
  ELSE IF ~s.isAuthenticated THEN [ret |-> FALSE, session |-> s]
  ELSE IF Elapsed(s, t) > SESSION_TIMEOUT
       THEN [ret |-> FALSE, session |-> s]
       ELSE [ret |-> TRUE, session |-> [s EXCEPT !.lastActivity = t]]

\* isSessionValid that logs the session out when the presented token differs
isSessionValid_lockout(s, tok, t) ==
  IF tok = "" THEN [ret |-> FALSE, session |-> s]
  ELSE IF tok # s.sessionId
       THEN [ret |-> FALSE, session |-> [s EXCEPT !.isAuthenticated = FALSE]]
  ELSE IF ~s.isAuthenticated THEN [ret |-> FALSE, session |-> s]
  ELSE IF Elapsed(s, t) > SESSION_TIMEOUT
       THEN [ret |-> FALSE, session |-> [s EXCEPT !.isAuthenticated = FALSE]]
       ELSE [ret |-> TRUE, session |-> [s EXCEPT !.lastActivity = t]]

\* bool isSessionValid(const String &sessionId): result and session afterwards
isSessionValid(s, tok, t) ==
  IF tok = "" THEN [ret |-> FALSE, session |-> s]
  ELSE IF tok # s.sessionId THEN [ret |-> FALSE, session |-> s]
  ELSE IF ~s.isAuthenticated THEN [ret |-> FALSE, session |-> s]
  ELSE IF Elapsed(s, t) > SESSION_TIMEOUT
       THEN [ret |-> FALSE, session |-> [s EXCEPT !.isAuthenticated = FALSE]]
       ELSE [ret |-> TRUE, session |-> [s EXCEPT !.lastActivity = t]]

\* createSession that leaves the session unauthenticated
createSession_unauth(tok, t) ==
  [sessionId |-> tok, lastActivity |-> t, isAuthenticated |-> FALSE]

\* void createSession(): tok is the value generateSessionId() returned
createSession(tok, t) ==
  [sessionId |-> tok, lastActivity |-> t, isAuthenticated |-> TRUE]

\* destroySession that keeps the sessionId
destroySession_keepid(s) == [s EXCEPT !.isAuthenticated = FALSE]

\* void destroySession()
destroySession(s) == [s EXCEPT !.sessionId = "", !.isAuthenticated = FALSE]

\* a call of isSessionValid(tok) at the current clock value, with its record
ValidateCall(tok) ==
  LET r == isSessionValid(currentSession, tok, now)
      stored == tok # "" /\ tok = currentSession.sessionId
      late == idle > SESSION_TIMEOUT
  IN /\ currentSession' = r.session
     /\ call' = [op |-> "isSessionValid", tok |-> tok, ret |-> r.ret,
                 pre |-> currentSession, at |-> now, idle |-> idle,
                 chainOK |-> chainOK, expired |-> expired, streak |-> streak,
                 destroyed |-> destroyed, prior |-> prior]
     /\ idle' = IF r.ret THEN 0 ELSE idle
     /\ streak' = IF r.ret THEN (IF streak < MaxStreak THEN streak + 1 ELSE streak)
                  ELSE IF stored THEN 0 ELSE streak
     /\ chainOK' = IF stored /\ late THEN FALSE ELSE chainOK
     /\ expired' = (expired \/ (stored /\ Elapsed(currentSession, now) > SESSION_TIMEOUT))
     /\ UNCHANGED <<now, ticks, destroyed, prior>>

\* a call of createSession() at the current clock value
CreateCall(tok) ==
  /\ currentSession' = createSession(tok, now)
  /\ call' = [op |-> "createSession", tok |-> tok, ret |-> TRUE,
              pre |-> currentSession, at |-> now, idle |-> idle,
              chainOK |-> chainOK, expired |-> expired, streak |-> streak,
                 destroyed |-> destroyed, prior |-> prior]
  /\ idle' = 0
  /\ chainOK' = TRUE
  /\ expired' = FALSE
  /\ streak' = 0
  /\ destroyed' = FALSE
  /\ prior' = currentSession.sessionId
  /\ UNCHANGED <<now, ticks>>

\* a call of destroySession()
DestroyCall ==
  /\ currentSession' = destroySession(currentSession)
  /\ call' = [op |-> "destroySession", tok |-> "", ret |-> FALSE,
              pre |-> currentSession, at |-> now, idle |-> idle,
              chainOK |-> chainOK, expired |-> expired, streak |-> streak,
                 destroyed |-> destroyed, prior |-> prior]
  /\ chainOK' = FALSE
  /\ streak' = 0
  /\ destroyed' = TRUE
  /\ prior' = currentSession.sessionId
  /\ UNCHANGED <<now, ticks, idle, expired>>

\* millis() advances between two requests
Tick ==
  \E d \in Jumps :
    /\ ticks < MaxTicks
    /\ ticks' = ticks + 1
    /\ now' = (now + d) % MillisModulus
    /\ idle' = idle + d
    /\ UNCHANGED <<currentSession, chainOK, expired, streak, destroyed, prior, call>>

SessInit ==
  /\ currentSession = BootSession
  /\ now = 0
  /\ ticks = 0
  /\ idle = 0
  /\ chainOK = FALSE
  /\ expired = FALSE
  /\ streak = 0
  /\ destroyed = FALSE
  /\ prior = ""
  /\ call = NoCall


(* --------------------------- request bodies ---------------------------- *)
CRLF == <<CR, LF>>

\* all sequences over S of length at most n
RECURSIVE SeqsUpTo(_, _)
SeqsUpTo(S, n) ==
  IF n = 0 THEN {<<>>}
  ELSE LET shorter == SeqsUpTo(S, n - 1)
       IN shorter \cup {Append(q, b) : q \in {r \in shorter : Len(r) = n - 1}, b \in S}

\* a payload long enough to make the window slide: WIN_SIZE - 2 bytes
LongPayload == [k \in 1..(WIN_SIZE - 2) |-> XX]

Payloads == SeqsUpTo({XX, CR}, MaxPayLen) \cup {LongPayload}

\* Content-Type header values: mime type and boundary parameter
ContentTypes ==
  { [mime |-> "multipart/form-data", hasBoundary |-> TRUE, token |-> <<BB>>],
    [mime |-> "multipart/form-data", hasBoundary |-> FALSE, token |-> <<>>],
    [mime |-> "text/plain", hasBoundary |-> FALSE, token |-> <<>>] }

Delim == <<DASH, DASH, BB>>

\* one part of a multipart body: delimiter line, header lines, blank line, content
Part(hdrs, content) == Delim \o CRLF \o hdrs \o CRLF \o content \o CRLF
CloseDelim == Delim \o <<DASH, DASH>> \o CRLF

TargetHdrs == <<UU>> \o CRLF \o <<HH>> \o CRLF
OtherHdrs == <<OO>> \o CRLF

Bodies ==
  {Part(TargetHdrs, p) \o CloseDelim : p \in Payloads}
  \cup {Part(OtherHdrs, <<VV>>) \o Part(TargetHdrs, <<XX>>) \o CloseDelim}
  \cup {Part(OtherHdrs, <<VV>>) \o CloseDelim}

MultipartB == [mime |-> "multipart/form-data", hasBoundary |-> TRUE, token |-> <<BB>>]

\* parts that are not the firmware: one or two header lines, the second of
\* them holding name="update"; a content that is empty, of one line, with a
\* blank line in it, with a line holding name="update"
OtherParts ==
  { Part(OtherHdrs, <<VV>>),
    Part(OtherHdrs, <<>>),
    Part(OtherHdrs \o <<UU>> \o CRLF, <<VV>>),
    Part(OtherHdrs, <<VV>> \o CRLF \o CRLF \o <<VV>>),
    Part(OtherHdrs, <<VV>> \o CRLF \o <<UU>>) }

\* the texts of up to n parts that are not the firmware
RECURSIVE OthersUpTo(_)
OthersUpTo(n) ==
  IF n = 0 THEN {<<>>}
  ELSE OthersUpTo(n - 1) \cup {b \o p : b \in OthersUpTo(n - 1), p \in OtherParts}

\* bodies with up to MaxOthers other parts before the firmware part, and the
\* same bodies without the firmware part
FieldBodies ==
  {b \o Part(TargetHdrs, <<XX>>) \o CloseDelim : b \in OthersUpTo(MaxOthers)}
  \cup {b \o CloseDelim : b \in OthersUpTo(MaxOthers)}

\* a boundary token with which the marker fills the window: WIN_SIZE - 4 bytes
LongToken == [k \in 1..(WIN_SIZE - 4) |-> BB]

\* a body whose one part, the firmware, is delimited by the boundary token tok
BodyOf(tok, content) ==
  <<DASH, DASH>> \o tok \o CRLF \o TargetHdrs \o CRLF \o content \o CRLF
    \o <<DASH, DASH>> \o tok \o <<DASH, DASH>> \o CRLF

\* uploads for the payload loop: the short boundary with every payload, the
\* long boundary with a payload of one byte
WindowRequests ==
  {[tok |-> "t1", ctype |-> MultipartB, body |-> BodyOf(<<BB>>, p)] : p \in Payloads}
  \cup {[tok |-> "t1", ctype |-> [MultipartB EXCEPT !.token = LongToken],
          body |-> BodyOf(LongToken, <<XX>>)]}

\* the upload requests: every body with the cookie of the logged-in operator
\* and a well-formed Content-Type, and one body with every other cookie and
\* Content-Type
Requests ==
  {[tok |-> "t1", ctype |-> MultipartB, body |-> b] : b \in Bodies}
  \cup {[tok |-> tok, ctype |-> ct, body |-> Part(TargetHdrs, <<XX>>) \o CloseDelim] :
          tok \in {"", "t1", "zz"}, ct \in ContentTypes}

NoRequest == [tok |-> "", ctype |-> [mime |-> "", hasBoundary |-> FALSE, token |-> <<>>],
              body |-> <<>>]

NoResponse == [status |-> 0, msg |-> ""]
NoChunk == [start |-> 0, bytes |-> <<>>, wrote |-> <<>>, seen |-> FALSE]

(* --------------------------- string helpers ---------------------------- *)
\* String::startsWith
StartsWith(s, prefix) ==
  Len(s) >= Len(prefix) /\ SubSeq(s, 1, Len(prefix)) = prefix

\* line.indexOf(searchStr) >= 0, the search string being one symbol
Contains(s, sym) == \E k \in 1..Len(s) : s[k] = sym

Min(a, b) == IF a < b THEN a ELSE b

(* ---------------------------- the connection --------------------------- *)
\* client.available()
Available == sent - pos
\* client.connected(): open, or closed with unread data
Connected == ~closed \/ Available > 0

(* --------------------------- payload scanning -------------------------- *)
\* String boundary = "--" + contentType.substring(bPos + 9)
Boundary(ct) == <<DASH, DASH>> \o ct.token
\* String boundaryCRLF = "\r\n" + boundary
BoundaryCRLF(ct) == CRLF \o Boundary(ct)

\* a window that starts again from nothing when it is full
SlideWindow_reset(win, b) ==
  Append(IF Len(win) = WIN_SIZE THEN <<>> ELSE win, b)

\* one pass of the for loop body, window part: memmove when the window is
\* full, then window[winLen++] = buf[i]
SlideWindow(win, b) ==
  Append(IF Len(win) = WIN_SIZE THEN Tail(win) ELSE win, b)

\* the comparison of the last boundaryCRLF.length() window bytes with the marker
TailMatches(win, marker) ==
  /\ Len(win) >= Len(marker)
  /\ SubSeq(win, Len(win) - Len(marker) + 1, Len(win)) = marker

\* the for loop over buf[lo..hi] (1-based), byte by byte and in order, the
\* range being halved so that the evaluation stays shallow (the second half
\* is scanned only when the first has no match); i is the 0-based index of
\* the byte that completed the match
RECURSIVE ScanRange(_, _, _, _, _)
ScanRange(buf, lo, hi, win, marker) ==
  IF lo = hi
  THEN LET w == SlideWindow(win, buf[lo])
       IN [match |-> TailMatches(w, marker), i |-> lo - 1, window |-> w]
  ELSE LET mid == (lo + hi) \div 2
           left == ScanRange(buf, lo, mid, win, marker)
       IN IF left.match THEN left
          ELSE ScanRange(buf, mid + 1, hi, left.window, marker)

\* the for loop over the whole chunk
ScanChunk(buf, win, marker) ==
  IF Len(buf) = 0 THEN [match |-> FALSE, i |-> 0, window |-> win]
  ELSE ScanRange(buf, 1, Len(buf), win, marker)

\* fileBytesToWrite computed from i without the + 1 of totalReceived
FileBytesToWrite_off(wr, i, winLen, mlen, len) ==
  LET boundaryStartInWin == winLen - mlen
      totalReceived == wr + i
      fileTotal == totalReceived - (winLen - boundaryStartInWin)
      n == fileTotal - wr
  IN IF n < 0 THEN 0 ELSE IF n > len THEN len ELSE n

\* fileBytesToWrite at WRITE_AND_FINISH, clamped to [0, len]; the size_t
\* differences wrap modulo 2^32 and the final int conversion undoes the wrap
FileBytesToWrite(wr, i, winLen, mlen, len) ==
  LET boundaryStartInWin == winLen - mlen
      totalReceived == wr + i + 1
      fileTotal == totalReceived - (winLen - boundaryStartInWin)
      n == fileTotal - wr
  IN IF n < 0 THEN 0 ELSE IF n > len THEN len ELSE n


(* ------------------------------ the handler ---------------------------- *)
\* state of the per-upload variables when a connection is accepted
FreshUpload ==
  /\ fmf' = "seek"
  /\ line' = <<>>
  /\ written' = 0
  /\ window' = <<>>
  /\ flash' = <<>>
  /\ flashEnd' = 0
  /\ payStart' = 0
  /\ lastChunk' = NoChunk
  /\ beginCalls' = 0
  /\ endCalls' = 0
  /\ writeOutside' = FALSE
  /\ lastEnd' = "none"
  /\ response' = NoResponse
  /\ failure' = "none"
  /\ dropped' = FALSE

\* the handler returns after sending resp; loop() stops the client
Return(resp, stage) ==
  /\ response' = resp
  /\ failure' = stage
  /\ pc' = "accept"

\* sendUpdateError(client, msg)
UpdateError(msg) == [status |-> 500, msg |-> msg]

\* server.available() returns a client whose header block has been parsed:
\* POST /doupdate with a sessionId cookie, a Content-Type and a body to come
Accept ==
  /\ pc = "accept"
  /\ conns < MaxConns
  /\ \E r \in Requests : req' = r
  /\ conns' = conns + 1
  /\ pc' = "route"
  /\ sent' = 0
  /\ pos' = 0
  /\ closed' = FALSE
  /\ waiting' = FALSE
  /\ FreshUpload
  /\ UNCHANGED <<sessVars, storeVars, parseVars, timeVars, updState>>

\* offsets of body b at which a segment of the peer can end
ArrivalPoints(b) == {k \in 1..Len(b) : k <= HeadCut \/ k >= Len(b) - TailCut}

\* body bytes arrive at the socket
Arrive ==
  /\ pc \in {"route", "find", "payload"}
  /\ ~closed
  /\ \E k \in ArrivalPoints(req.body) : k > sent /\ sent' = k
  /\ UNCHANGED <<sessVars, storeVars, parseVars, timeVars, otaVars, pc, conns, req, pos, closed, waiting>>

\* the peer closes the connection
Close ==
  /\ pc \in {"route", "find", "payload"}
  /\ ~closed
  /\ closed' = TRUE
  /\ UNCHANGED <<sessVars, storeVars, parseVars, timeVars, otaVars, pc, conns, req, sent, pos, waiting>>

\* route of loop() that skips the session check
DoUpdateGate_open(valid) == TRUE

\* if (isSessionValid(sessionId)) handleOTAUpload(...) else serveUnauthorized(client)
DoUpdateGate(valid) == valid

\* POST /doupdate: the session check, then the content-type and boundary
\* checks of handleOTAUpload
RouteDoUpdate ==
  LET r == isSessionValid(currentSession, req.tok, now)
  IN /\ pc = "route"
     /\ ValidateCall(req.tok)
     /\ IF ~DoUpdateGate(r.ret)
          THEN Return([status |-> 401, msg |-> "Unauthorized"], "none")
        ELSE IF req.ctype.mime # "multipart/form-data"
          THEN Return(UpdateError("Invalid content type"), "ctype")
        ELSE IF ~req.ctype.hasBoundary
          THEN Return(UpdateError("Boundary not found"), "boundary")
        ELSE /\ pc' = "find"
             /\ UNCHANGED <<response, failure>>
     /\ UNCHANGED <<storeVars, parseVars, timeVars, conns, req, sent, pos, closed, waiting, fmf, line, written, window,
                    flash, flashEnd, payStart, lastChunk, updState, beginCalls, endCalls,
                    writeOutside, lastEnd, dropped>>

\* a handler that goes on streaming after Update.begin failed
AfterBegin_noreturn(ok) == "payload"

\* if (!Update.begin(UPDATE_SIZE_UNKNOWN)) { sendUpdateError; return; }
AfterBegin(ok) == IF ok THEN "payload" ELSE "accept"

\* findMultipartField returned true: Update.begin, then the payload loop
BeginUpdate(ok) ==
  /\ beginCalls' = beginCalls + 1
  /\ updState' = IF ok THEN "running" ELSE updState
  /\ pc' = AfterBegin(ok)
  /\ response' = IF ok THEN response ELSE UpdateError("Failed to initialize update")
  /\ failure' = IF ok THEN failure ELSE "begin"
  /\ payStart' = pos'
  /\ fmf' = "done"
  /\ line' = <<>>

\* a field search that takes any line holding name="update" for the first
\* header line of a part
LineDone_anyline ==
  CASE fmf = "seek" ->
         /\ fmf' = IF StartsWith(line, Boundary(req.ctype)) THEN "name"
                   ELSE IF Contains(line, UU) THEN "thdr" ELSE "seek"
         /\ line' = <<>>
         /\ UNCHANGED <<pc, response, failure, payStart, updState, beginCalls>>
    [] fmf = "name" ->
         /\ fmf' = IF Contains(line, UU) THEN "thdr" ELSE "skip"
         /\ line' = <<>>
         /\ UNCHANGED <<pc, response, failure, payStart, updState, beginCalls>>
    [] fmf = "skip" ->
         /\ fmf' = IF Len(line) = 0 THEN "seek" ELSE "skip"
         /\ line' = <<>>
         /\ UNCHANGED <<pc, response, failure, payStart, updState, beginCalls>>
    [] fmf = "thdr" ->
         IF Len(line) = 0
         THEN \E ok \in BOOLEAN : BeginUpdate(ok)
         ELSE /\ line' = <<>>
              /\ UNCHANGED <<fmf, pc, response, failure, payStart, updState, beginCalls>>

\* findMultipartField after readLine returned a complete line
LineDone ==
  CASE fmf = "seek" ->
         /\ fmf' = IF StartsWith(line, Boundary(req.ctype)) THEN "name" ELSE "seek"
         /\ line' = <<>>
         /\ UNCHANGED <<pc, response, failure, payStart, updState, beginCalls>>
    [] fmf = "name" ->
         /\ fmf' = IF Contains(line, UU) THEN "thdr" ELSE "skip"
         /\ line' = <<>>
         /\ UNCHANGED <<pc, response, failure, payStart, updState, beginCalls>>
    [] fmf = "skip" ->
         /\ fmf' = IF Len(line) = 0 THEN "seek" ELSE "skip"
         /\ line' = <<>>
         /\ UNCHANGED <<pc, response, failure, payStart, updState, beginCalls>>
    [] fmf = "thdr" ->
         IF Len(line) = 0
         THEN \E ok \in BOOLEAN : BeginUpdate(ok)
         ELSE /\ line' = <<>>
              /\ UNCHANGED <<fmf, pc, response, failure, payStart, updState, beginCalls>>

\* readLine reads one byte: char c = client.read()
ReadByte ==
  /\ pc = "find"
  /\ Available > 0
  /\ pos' = pos + 1
  /\ waiting' = FALSE
  /\ LET c == req.body[pos + 1]
     IN IF c = CR
          THEN UNCHANGED <<fmf, line, pc, response, failure, payStart, updState, beginCalls>>
        ELSE IF c = LF
          THEN LineDone
        ELSE /\ line' = Append(line, c)
             /\ UNCHANGED <<fmf, pc, response, failure, payStart, updState, beginCalls>>
  /\ UNCHANGED <<sessVars, storeVars, parseVars, timeVars, conns, req, sent, closed, written, window, flash, flashEnd, lastChunk,
                 endCalls, writeOutside, lastEnd, dropped>>

\* readLine enters while (!client.available()) delay(1) with the peer connected
ReadLineWait ==
  /\ pc = "find"
  /\ ~waiting
  /\ Available = 0
  /\ ~closed
  /\ waiting' = TRUE
  /\ UNCHANGED <<sessVars, storeVars, parseVars, timeVars, otaVars, pc, conns, req, sent, pos, closed>>

\* readLine finds client.connected() false: findMultipartField returns false
ReadLineFail ==
  /\ pc = "find"
  /\ ~waiting
  /\ ~Connected
  /\ Return(UpdateError("Firmware file not found"), "field")
  /\ UNCHANGED <<sessVars, storeVars, parseVars, timeVars, conns, req, sent, pos, closed, waiting, fmf, line, written,
                 window, flash, flashEnd, payStart, lastChunk, updState, beginCalls, endCalls,
                 writeOutside, lastEnd, dropped>>

\* a handler that restarts whatever Update.end returned
AfterEnd_always(ok) == "restart"

\* if (Update.end(true)) { ...; ESP.restart(); } else sendUpdateError(...)
AfterEnd(ok) == IF ok THEN "restart" ELSE "accept"

\* the code after the payload loop: Update.end(true) and the response
Finish(ok) ==
  /\ endCalls' = endCalls + 1
  /\ updState' = "idle"
  /\ lastEnd' = IF ok THEN "ok" ELSE "fail"
  /\ pc' = AfterEnd(ok)
  /\ response' = IF ok THEN [status |-> 200, msg |-> "Update Successful"]
                 ELSE UpdateError("Update failed during finalization")
  /\ failure' = IF ok THEN failure ELSE "end"

\* a write after which written holds the size of the last write only
UpdateWrite_assign(bytes, off) ==
  /\ flash' = flash \o bytes
  /\ flashEnd' = off + Len(bytes)
  /\ writeOutside' = (writeOutside \/ updState # "running")
  /\ written' = Len(bytes)

\* Update.write(buf, n): the writer accepts the n bytes offered; off is the
\* offset of buf[0] in the payload stream
UpdateWrite(bytes, off) ==
  /\ flash' = flash \o bytes
  /\ flashEnd' = off + Len(bytes)
  /\ writeOutside' = (writeOutside \/ updState # "running")
  /\ written' = written + Len(bytes)

\* one pass of the payload loop with data available: read a chunk, scan it,
\* write it whole or, on a match, write its first fileBytesToWrite bytes and
\* finalize
PayloadRead ==
  /\ pc = "payload"
  /\ Available > 0
  /\ \E len \in {Min(Available, BUF_SIZE)} :
     \E buf \in {SubSeq(req.body, pos + 1, pos + len)} :
     \E sc \in {ScanChunk(buf, window, BoundaryCRLF(req.ctype))} :
     \E n \in {FileBytesToWrite(written, sc.i, Len(sc.window),
                                Len(BoundaryCRLF(req.ctype)), len)} :
        /\ pos' = pos + len
        /\ waiting' = FALSE
        /\ window' = sc.window
        /\ IF sc.match
             THEN /\ IF n > 0 THEN UpdateWrite(SubSeq(buf, 1, n), pos - payStart)
                              ELSE UNCHANGED <<flash, flashEnd, writeOutside, written>>
                  /\ lastChunk' = [start |-> pos - payStart, bytes |-> buf,
                                   wrote |-> SubSeq(buf, 1, n), seen |-> TRUE]
                  /\ \E ok \in BOOLEAN : Finish(ok)
             ELSE /\ UpdateWrite(buf, pos - payStart)
                  /\ lastChunk' = [start |-> pos - payStart, bytes |-> buf,
                                   wrote |-> buf, seen |-> FALSE]
                  /\ UNCHANGED <<pc, updState, endCalls, lastEnd, response, failure>>
  /\ UNCHANGED <<sessVars, storeVars, parseVars, timeVars, conns, req, sent, closed, fmf, line, payStart, beginCalls,
                 dropped>>

\* the payload loop enters while (!client.available()) delay(1)
PayloadWait ==
  /\ pc = "payload"
  /\ ~waiting
  /\ Available = 0
  /\ ~closed
  /\ waiting' = TRUE
  /\ UNCHANGED <<sessVars, storeVars, parseVars, timeVars, otaVars, pc, conns, req, sent, pos, closed>>

\* the payload loop finds client.connected() false and falls through to
\* Update.end(true)
PayloadDrop ==
  /\ pc = "payload"
  /\ ~waiting
  /\ ~Connected
  /\ dropped' = TRUE
  /\ \E ok \in BOOLEAN : Finish(ok)
  /\ UNCHANGED <<sessVars, storeVars, parseVars, timeVars, conns, req, sent, pos, closed, waiting, fmf, line, written,
                 window, flash, flashEnd, payStart, lastChunk, beginCalls, writeOutside>>

(* --------------------------- initial states ---------------------------- *)
ConnInit ==
  /\ pc = "accept"
  /\ conns = 0
  /\ req = NoRequest
  /\ sent = 0
  /\ pos = 0
  /\ closed = FALSE
  /\ waiting = FALSE

OtaInit ==
  /\ fmf = "seek"
  /\ line = <<>>
  /\ written = 0
  /\ window = <<>>
  /\ flash = <<>>
  /\ flashEnd = 0
  /\ payStart = 0
  /\ lastChunk = NoChunk
  /\ updState = "idle"
  /\ beginCalls = 0
  /\ endCalls = 0
  /\ writeOutside = FALSE
  /\ lastEnd = "none"
  /\ response = NoResponse
  /\ failure = "none"
  /\ dropped = FALSE

(* ------------------------- session requests ---------------------------- *)
\* GET / with a sessionId cookie: isSessionValid decides dashboard or login page
GetRoot ==
  \E tok \in Tokens :
    /\ pc = "accept"
    /\ ValidateCall(tok)
    /\ UNCHANGED <<connVars, otaVars, storeVars, parseVars, timeVars>>

\* POST /login with the right password: createSession()
PostLogin ==
  \E tok \in GeneratedTokens :
    /\ pc = "accept"
    /\ CreateCall(tok)
    /\ UNCHANGED <<connVars, otaVars, storeVars, parseVars, timeVars>>

\* GET /logout: destroySession()
GetLogout ==
  /\ pc = "accept"
  /\ DestroyCall
  /\ UNCHANGED <<connVars, otaVars, storeVars, parseVars, timeVars>>

\* time passes between two connections
ClockTick ==
  /\ pc = "accept"
  /\ Tick
  /\ UNCHANGED <<connVars, otaVars, storeVars, parseVars, timeVars>>

(* ------------------------- the key-value store ------------------------- *)
\* String s.indexOf(pat, from): 0-based index of the first occurrence at or
\* after from, -1 if none (from is unsigned: a negative from is past the end)
IndexOf(s, pat, from) ==
  IF from < 0 THEN -1
  ELSE LET hits == {k \in from..(Len(s) - Len(pat)) : SubSeq(s, k + 1, k + Len(pat)) = pat}
       IN IF hits = {} THEN -1
          ELSE CHOOSE k \in hits : \A j \in hits : k <= j

\* String s.substring(left, right), 0-based, right exclusive
Substring(s, left, right) ==
  LET l == Min(left, right)
      r == Min(IF left > right THEN left ELSE right, Len(s))
  IN IF l >= Len(s) THEN <<>> ELSE SubSeq(s, l + 1, r)

\* isspace(c)
IsSpace(c) == c \in {SP, TAB, LF, 11, 12, CR}

\* String::trim(): leading and trailing whitespace removed
Trim(s) ==
  LET solid == {k \in 1..Len(s) : ~IsSpace(s[k])}
  IN IF solid = {} THEN <<>>
     ELSE SubSeq(s, CHOOSE k \in solid : \A j \in solid : k <= j,
                    CHOOSE k \in solid : \A j \in solid : k >= j)

\* value of one hexadecimal digit, -1 for any other character
HexDigit(c) ==
  IF c >= D0 /\ c <= D0 + 9 THEN c - D0
  ELSE IF c >= AA /\ c <= AA + 5 THEN c - AA + 10
  ELSE IF c >= 65 /\ c <= 70 THEN c - 65 + 10
  ELSE -1

\* (char)strtol(hex, NULL, 16) for the two characters after a percent sign
HexByte(h1, h2) ==
  IF HexDigit(h1) < 0 THEN 0
  ELSE IF HexDigit(h2) < 0 THEN HexDigit(h1)
  ELSE 16 * HexDigit(h1) + HexDigit(h2)

\* urlDecode from 1-based position i on: '+' gives a space, '%' followed by
\* at least two characters gives the byte they spell, a '%' with fewer than
\* two characters after it is dropped; the characters up to the next '+' or
\* '%' are copied in one step
RECURSIVE urlDecodeFrom(_, _)
urlDecodeFrom(s, i) ==
  IF i > Len(s) THEN <<>>
  ELSE LET marks == {k \in i..Len(s) : s[k] = PLUS \/ s[k] = PCT}
       IN IF marks = {} THEN SubSeq(s, i, Len(s))
          ELSE LET k == CHOOSE m \in marks : \A j \in marks : m <= j
               IN SubSeq(s, i, k - 1) \o
                  (IF s[k] = PLUS THEN <<SP>> \o urlDecodeFrom(s, k + 1)
                   ELSE IF k + 2 <= Len(s)
                     THEN <<HexByte(s[k + 1], s[k + 2])>> \o urlDecodeFrom(s, k + 3)
                   ELSE urlDecodeFrom(s, k + 1))

\* String urlDecode(String str)
urlDecode(s) == urlDecodeFrom(s, 1)

\* String(i): the decimal digits of a non-negative int
RECURSIVE Decimal(_)
Decimal(i) == IF i < 10 THEN <<D0 + i>> ELSE Decimal(i \div 10) \o <<D0 + (i % 10)>>

\* "k" + String(index)
getKeyByIndex(index) == <<KK>> \o Decimal(index)

\* the key names of the slots, by index
KeyNames == [i \in 0..(MAX_KEYS - 1) |-> getKeyByIndex(i)]

\* prefs.isKey(key)
IsKey(p, key) == key \in DOMAIN p

\* prefs.putString(key, value)
PutString(p, key, value) == [k \in DOMAIN p \cup {key} |-> IF k = key THEN value ELSE p[k]]

\* prefs.remove(key)
Remove(p, key) == [k \in DOMAIN p \ {key} |-> p[k]]

\* the loop for (i = lo; i <= hi; i++) if (!isKey(k<i>)) { keyIndex = i; break; }
\* -1 if it ends without a break
RECURSIVE FirstFree(_, _, _)
FirstFree(p, lo, hi) ==
  IF lo = hi THEN (IF ~IsKey(p, KeyNames[lo]) THEN lo ELSE -1)
  ELSE LET mid == (lo + hi) \div 2
           left == FirstFree(p, lo, mid)
       IN IF left >= 0 THEN left ELSE FirstFree(p, mid + 1, hi)

\* a slot search that never looks at the last slot
FindFreeIndex_short(p) == FirstFree(p, 0, MAX_KEYS - 2)

\* a slot search that takes the slot after the last one counted
FindFreeIndex_count(p) ==
  IF Cardinality(DOMAIN p) < MAX_KEYS THEN Cardinality(DOMAIN p) ELSE -1

\* int keyIndex after the search loop of handleAPIAddKey and handleAPIInsert
FindFreeIndex(p) == FirstFree(p, 0, MAX_KEYS - 1)

\* the search of handleAPIRemove keeping the last match instead of the first
FirstMatch_last(p, v, lo, hi) ==
  IF \A i \in lo..hi : ~(IsKey(p, KeyNames[i]) /\ p[KeyNames[i]] = v) THEN -1
  ELSE CHOOSE i \in lo..hi :
         /\ IsKey(p, KeyNames[i]) /\ p[KeyNames[i]] = v
         /\ \A j \in (i + 1)..hi : ~(IsKey(p, KeyNames[j]) /\ p[KeyNames[j]] = v)

\* the loop of handleAPIRemove: the first i whose stored value equals
\* searchValue, -1 if none
RECURSIVE FirstMatch(_, _, _, _)
FirstMatch(p, v, lo, hi) ==
  IF lo = hi
  THEN (IF IsKey(p, KeyNames[lo]) /\ p[KeyNames[lo]] = v THEN lo ELSE -1)
  ELSE LET mid == (lo + hi) \div 2
           left == FirstMatch(p, v, lo, mid)
       IN IF left >= 0 THEN left ELSE FirstMatch(p, v, mid + 1, hi)

\* the counting loop over the slots lo..hi
RECURSIVE CountRange(_, _, _)
CountRange(p, lo, hi) ==
  IF lo = hi THEN (IF IsKey(p, KeyNames[lo]) THEN 1 ELSE 0)
  ELSE LET mid == (lo + hi) \div 2
       IN CountRange(p, lo, mid) + CountRange(p, mid + 1, hi)

\* countKeys that stops one slot early
countKeys_short(p) == CountRange(p, 0, MAX_KEYS - 2)

\* int countKeys()
countKeys(p) == CountRange(p, 0, MAX_KEYS - 1)

\* the escaping of one character of a value in the JSON output
EscapeChar(c) ==
  IF c = QUOTE THEN <<BSL, QUOTE>>
  ELSE IF c = BSL THEN <<BSL, BSL>>
  ELSE IF c = LF THEN <<BSL, NN>>
  ELSE IF c = CR THEN <<BSL, RR>>
  ELSE IF c = TAB THEN <<BSL, TT>>
  ELSE <<c>>

\* the escaping loop over value[lo..hi]; a stretch without a character to
\* escape is copied in one step
RECURSIVE EscapeRange(_, _, _)
EscapeRange(v, lo, hi) ==
  IF lo > hi THEN <<>>
  ELSE IF \A k \in lo..hi : v[k] \notin {QUOTE, BSL, LF, CR, TAB} THEN SubSeq(v, lo, hi)
  ELSE IF lo = hi THEN EscapeChar(v[lo])
  ELSE LET mid == (lo + hi) \div 2
       IN EscapeRange(v, lo, mid) \o EscapeRange(v, mid + 1, hi)

JsonEscape(v) == EscapeRange(v, 1, Len(v))

\* the listing loop over the slots lo..hi: one {"key":..,"value":..} object
\* for every slot that isKey, in the order of the loop
RECURSIVE ListRange(_, _, _)
ListRange(p, lo, hi) ==
  IF lo = hi
  THEN (IF IsKey(p, KeyNames[lo])
        THEN <<[key |-> KeyNames[lo], value |-> JsonEscape(p[KeyNames[lo]])]>>
        ELSE <<>>)
  ELSE LET mid == (lo + hi) \div 2
       IN ListRange(p, lo, mid) \o ListRange(p, mid + 1, hi)

\* a key-value request as the handler meets it: the Content-Length header's
\* value, the body the client sends, and how many body bytes have arrived
\* when the handler starts to read
\* while (client.available() && body.length() < contentLength) body += read()
ReadBody(r) == SubSeq(r.body, 1, Min(r.avail, Min(r.contentLength, Len(r.body))))

\* what a handler did: the store afterwards and the JSON sent by sendJSON;
\* parsed tells that the handler got as far as its value (or key) string
Answer(p, status, msg, parsed, value, key) ==
  [prefs |-> p, status |-> status, success |-> (status = 200), msg |-> msg,
   parsed |-> parsed, value |-> value, key |-> key, count |-> 0, items |-> <<>>]

\* the length checks with the upper one written >=
ValueCheck_ge(value) ==
  IF Len(value) = 0 THEN "Value cannot be empty"
  ELSE IF Len(value) >= MAX_VALUE_LENGTH THEN "Value too long (max 128 chars)"
  ELSE ""

\* the length checks without the one for the empty value
ValueCheck_noempty(value) ==
  IF Len(value) > MAX_VALUE_LENGTH THEN "Value too long (max 128 chars)"
  ELSE ""

\* if (value.length() == 0) ...; if (value.length() > MAX_VALUE_LENGTH) ...:
\* the message of the check that fails, "" if none does
ValueCheck(value) ==
  IF Len(value) = 0 THEN "Value cannot be empty"
  ELSE IF Len(value) > MAX_VALUE_LENGTH THEN "Value too long (max 128 chars)"
  ELSE ""

\* the common tail of handleAPIAddKey and handleAPIInsert: the length checks,
\* the slot search, putString and the answer
StoreValue(p, value, saved) ==
  IF ValueCheck(value) # "" THEN Answer(p, 400, ValueCheck(value), TRUE, value, <<>>)
  ELSE LET keyIndex == FindFreeIndex(p)
       IN IF keyIndex < 0
          THEN Answer(p, 400, "Maximum keys reached (100/100)", TRUE, value, <<>>)
          ELSE Answer(PutString(p, KeyNames[keyIndex], value), 200, saved, TRUE, value,
                      KeyNames[keyIndex])

\* void handleAPIAddKey(client, contentLength): POST /api/keys, body value=<urlencoded>
handleAPIAddKey(p, r) ==
  IF r.contentLength <= 0 \/ r.contentLength > MaxFormBody
  THEN Answer(p, 400, "Invalid content length", FALSE, <<>>, <<>>)
  ELSE LET body == ReadBody(r)
           valuePos == IndexOf(body, ValueEq, 0)
       IN IF valuePos < 0 THEN Answer(p, 400, "Missing value", FALSE, <<>>, <<>>)
          ELSE StoreValue(p, urlDecode(Substring(body, valuePos + 6, Len(body))), "Key saved")

\* the string between the first two quotes after the colon that follows
\* "value", trimmed; found is false when a quote is missing
JsonValue(body) ==
  LET valueStart == IndexOf(body, QuotedValue, 0)
      colonPos == IndexOf(body, <<COLON>>, valueStart)
      quoteStart == IndexOf(body, <<QUOTE>>, colonPos)
      quoteEnd == IndexOf(body, <<QUOTE>>, quoteStart + 1)
  IN [field |-> valueStart >= 0,
      found |-> quoteStart >= 0 /\ quoteEnd >= 0,
      value |-> IF quoteStart >= 0 /\ quoteEnd >= 0
                THEN Trim(Substring(body, quoteStart + 1, quoteEnd))
                ELSE <<>>]

\* void handleAPIInsert(client, contentLength): POST /api/insert, body {"value":"..."}
handleAPIInsert(p, r) ==
  IF r.contentLength <= 0 \/ r.contentLength > MaxFormBody
  THEN Answer(p, 400, "Invalid content length", FALSE, <<>>, <<>>)
  ELSE LET j == JsonValue(ReadBody(r))
       IN IF ~j.field THEN Answer(p, 400, "Missing 'value' field", FALSE, <<>>, <<>>)
          ELSE IF ~j.found THEN Answer(p, 400, "Invalid JSON format", FALSE, <<>>, <<>>)
          ELSE StoreValue(p, j.value, "Value inserted")

\* a delete handler that removes the key without looking it up
DeleteIfKey_blind(p, key) == Answer(Remove(p, key), 200, "Key deleted", TRUE, key, <<>>)

\* if (!prefs.isKey(key)) 404; prefs.remove(key); 200
DeleteIfKey(p, key) ==
  IF ~IsKey(p, key) THEN Answer(p, 404, "Key not found", TRUE, key, <<>>)
  ELSE Answer(Remove(p, key), 200, "Key deleted", TRUE, key, <<>>)

\* void handleAPIDeleteKey(client, contentLength): DELETE /api/keys, body key=<urlencoded>
handleAPIDeleteKey(p, r) ==
  IF r.contentLength <= 0 \/ r.contentLength > MaxKeyBody
  THEN Answer(p, 400, "Invalid content length", FALSE, <<>>, <<>>)
  ELSE LET body == ReadBody(r)
           keyPos == IndexOf(body, KeyEq, 0)
       IN IF keyPos < 0 THEN Answer(p, 400, "Missing key", FALSE, <<>>, <<>>)
          ELSE DeleteIfKey(p, urlDecode(Substring(body, keyPos + 4, Len(body))))

\* void handleAPIRemove(client, contentLength): POST /api/remove, body {"value":"..."}
handleAPIRemove(p, r) ==
  IF r.contentLength <= 0 \/ r.contentLength > MaxFormBody
  THEN Answer(p, 400, "Invalid content length", FALSE, <<>>, <<>>)
  ELSE LET j == JsonValue(ReadBody(r))
       IN IF ~j.field THEN Answer(p, 400, "Missing 'value' field", FALSE, <<>>, <<>>)
          ELSE IF ~j.found THEN Answer(p, 400, "Invalid JSON format", FALSE, <<>>, <<>>)
          ELSE IF Len(j.value) = 0
            THEN Answer(p, 400, "Value cannot be empty", TRUE, j.value, <<>>)
          ELSE LET found == FirstMatch(p, j.value, 0, MAX_KEYS - 1)
               IN IF found < 0
                  THEN Answer(p, 404, "Value not found in storage", TRUE, j.value, <<>>)
                  ELSE Answer(Remove(p, KeyNames[found]), 200, "Value removed", TRUE,
                              j.value, KeyNames[found])

\* void handleAPIGetKeys(client) and void handleAPIPrint(client): the count
\* and the array of the JSON answer (the two differ in the array's name)
handleAPIGetKeys(p) ==
  [prefs |-> p, status |-> 200, success |-> TRUE, msg |-> "", parsed |-> TRUE,
   value |-> <<>>, key |-> <<>>, count |-> countKeys(p), items |-> ListRange(p, 0, MAX_KEYS - 1)]

handleAPIPrint(p) ==
  [prefs |-> p, status |-> 200, success |-> TRUE, msg |-> "", parsed |-> TRUE,
   value |-> <<>>, key |-> <<>>, count |-> countKeys(p), items |-> ListRange(p, 0, MAX_KEYS - 1)]

(* ------------------------- key-value requests -------------------------- *)
\* a value of n characters
LongValue(n) == [k \in 1..n |-> XX]

\* a request whose body has arrived whole, with the Content-Length it has
Whole(body) == [contentLength |-> Len(body), body |-> body, avail |-> Len(body)]

\* body of POST /api/keys for a value as the client encodes it
FormValue(raw) == ValueEq \o raw
\* body of POST /api/insert and POST /api/remove
JsonBody(text) == <<LBRACE>> \o QuotedValue \o <<COLON, QUOTE>> \o text \o <<QUOTE, RBRACE>>
\* body of DELETE /api/keys
FormKey(raw) == KeyEq \o raw

\* the value the filling of the store uses
FillValue == <<AA>>
FillRequest == Whole(FormValue(FillValue))

\* values as sent to POST /api/keys: empty, a lone '%' (decodes to empty),
\* "B", "%22a" (a quote and a), "+a" (a space and a), 128 and 129 characters
RawValues ==
  { <<>>, <<PCT>>, <<BB>>, <<PCT, D0 + 2, D0 + 2, AA>>, <<PLUS, AA>>,
    LongValue(MAX_VALUE_LENGTH), LongValue(MAX_VALUE_LENGTH + 1) }

AddRequests ==
  {Whole(FormValue(raw)) : raw \in RawValues}
  \cup { Whole(<<AA, BB>>),
         [contentLength |-> 0, body |-> FormValue(<<BB>>), avail |-> 7],
         [contentLength |-> MaxFormBody + 1, body |-> FormValue(<<BB>>), avail |-> 7],
         [contentLength |-> 8, body |-> FormValue(<<BB, BB>>), avail |-> 7] }

\* values as sent to POST /api/insert: empty, blank, "a", " B ", a backslash,
\* 128 and 129 characters
JsonTexts ==
  { <<>>, <<SP>>, FillValue, <<SP, BB, SP>>, <<BSL>>,
    LongValue(MAX_VALUE_LENGTH), LongValue(MAX_VALUE_LENGTH + 1) }

InsertRequests ==
  {Whole(JsonBody(t)) : t \in JsonTexts}
  \cup { Whole(<<LBRACE, RBRACE>>), Whole(<<LBRACE>> \o QuotedValue \o <<COLON, AA, RBRACE>>) }

\* keys as sent to DELETE /api/keys: k0, k1, k3, k99, k100, k03, "a", empty
RawKeys ==
  { KeyNames[0], KeyNames[1], KeyNames[3], KeyNames[MAX_KEYS - 1], getKeyByIndex(MAX_KEYS),
    <<KK, D0, D0 + 3>>, FillValue, <<>> }

DeleteRequests ==
  {Whole(FormKey(k)) : k \in RawKeys}
  \cup { Whole(<<AA, BB>>),
         [contentLength |-> MaxKeyBody + 1, body |-> FormKey(KeyNames[0]), avail |-> 6] }

\* values as sent to POST /api/remove
RemoveTexts == { <<>>, <<SP>>, FillValue, <<BB>>, <<SP, AA>>, LongValue(MAX_VALUE_LENGTH) }

RemoveRequests ==
  {Whole(JsonBody(t)) : t \in RemoveTexts} \cup { Whole(<<LBRACE, RBRACE>>) }

NoApi == [op |-> "none", req |-> Whole(<<>>), pre |-> <<>>, status |-> 0, success |-> FALSE,
          msg |-> "", parsed |-> FALSE, value |-> <<>>, key |-> <<>>, count |-> 0,
          items |-> <<>>]

\* the store takes the handler's result a and the request is recorded
Handled(op, r, a) ==
  /\ prefs' = a.prefs
  /\ api' = [op |-> op, req |-> r, pre |-> prefs, status |-> a.status,
             success |-> a.success, msg |-> a.msg, parsed |-> a.parsed, value |-> a.value,
             key |-> a.key, count |-> a.count, items |-> a.items]

\* the store is being filled: only adds of FillValue so far
Filling == ops = 0

\* a request other than the filling add can be handled: the filling has
\* stopped at one of the levels FillStops, and fewer than MaxOps followed
Budget ==
  /\ ops < MaxOps
  /\ (Filling => fillRun \in FillStops)

\* POST /api/keys with value=a while the store is being filled
FillAdd ==
  /\ pc = "accept"
  /\ Filling
  /\ fillRun < MAX_KEYS
  /\ Handled("add", FillRequest, handleAPIAddKey(prefs, FillRequest))
  /\ fillRun' = fillRun + 1
  /\ UNCHANGED <<ops, sessVars, connVars, otaVars, parseVars, timeVars>>

\* POST /api/keys
ApiAddKey ==
  /\ pc = "accept"
  /\ Budget
  /\ \E r \in AddRequests \cup {FillRequest} : Handled("add", r, handleAPIAddKey(prefs, r))
  /\ ops' = ops + 1
  /\ UNCHANGED <<fillRun, sessVars, connVars, otaVars, parseVars, timeVars>>

\* POST /api/insert
ApiInsert ==
  /\ pc = "accept"
  /\ Budget
  /\ \E r \in InsertRequests : Handled("insert", r, handleAPIInsert(prefs, r))
  /\ ops' = ops + 1
  /\ UNCHANGED <<fillRun, sessVars, connVars, otaVars, parseVars, timeVars>>

\* DELETE /api/keys
ApiDeleteKey ==
  /\ pc = "accept"
  /\ Budget
  /\ \E r \in DeleteRequests : Handled("delete", r, handleAPIDeleteKey(prefs, r))
  /\ ops' = ops + 1
  /\ UNCHANGED <<fillRun, sessVars, connVars, otaVars, parseVars, timeVars>>

\* POST /api/remove
ApiRemove ==
  /\ pc = "accept"
  /\ Budget
  /\ \E r \in RemoveRequests : Handled("remove", r, handleAPIRemove(prefs, r))
  /\ ops' = ops + 1
  /\ UNCHANGED <<fillRun, sessVars, connVars, otaVars, parseVars, timeVars>>

\* GET /api/keys
ApiGetKeys ==
  /\ pc = "accept"
  /\ Budget
  /\ Handled("keys", Whole(<<>>), handleAPIGetKeys(prefs))
  /\ ops' = ops + 1
  /\ UNCHANGED <<fillRun, sessVars, connVars, otaVars, parseVars, timeVars>>

\* GET /api/print
ApiPrint ==
  /\ pc = "accept"
  /\ Budget
  /\ Handled("print", Whole(<<>>), handleAPIPrint(prefs))
  /\ ops' = ops + 1
  /\ UNCHANGED <<fillRun, sessVars, connVars, otaVars, parseVars, timeVars>>

\* the "keys" namespace holds nothing
StoreInit ==
  /\ prefs = <<>>
  /\ api = NoApi
  /\ ops = 0
  /\ fillRun = 0

(* -------------------------- calendar and clock ------------------------- *)
\* int division and remainder of the C code: the quotient is truncated
\* toward zero and the remainder takes the sign of the dividend
CDiv(a, b) == IF a >= 0 THEN a \div b ELSE 0 - ((0 - a) \div b)
CMod(a, b) == a - b * CDiv(a, b)

\* the leap test of both the year loop and isLeap
IsLeap(y) == CMod(y, 4) = 0 /\ (CMod(y, 100) # 0 \/ CMod(y, 400) = 0)

\* int dayOfWeek1st of isDST: the weekday of the 1st of the month, 0 = Sunday
dayOfWeek1st(year, month) ==
  LET a == CDiv(14 - month, 12)
      y == year - a
      m == month + 12 * a - 2
  IN CMod(1 + y + CDiv(y, 4) - CDiv(y, 100) + CDiv(y, 400) + CDiv(31 * m, 12), 7)

\* a last Sunday taken one week day too early
lastSunday_off(year, month) == 31 - CMod(dayOfWeek1st(year, month) + 29, 7)

\* int lastSunday of isDST, the same expression for March and for October
lastSunday(year, month) == 31 - CMod(dayOfWeek1st(year, month) + 30, 7)

\* an isDST whose summer months end with August
isDST_summer(year, month, day, hour) ==
  IF month < 3 \/ month > 10 THEN FALSE
  ELSE IF month > 3 /\ month < 9 THEN TRUE
  ELSE IF month = 3
    THEN IF day < lastSunday(year, month) THEN FALSE
         ELSE IF day > lastSunday(year, month) THEN TRUE
         ELSE hour >= 2
  ELSE IF month = 10
    THEN IF day < lastSunday(year, month) THEN TRUE
         ELSE IF day > lastSunday(year, month) THEN FALSE
         ELSE hour < 3
  ELSE FALSE

\* bool isDST(int year, int month, int day, int hour)
isDST(year, month, day, hour) ==
  IF month < 3 \/ month > 10 THEN FALSE
  ELSE IF month > 3 /\ month < 10 THEN TRUE
  ELSE IF month = 3
    THEN IF day < lastSunday(year, month) THEN FALSE
         ELSE IF day > lastSunday(year, month) THEN TRUE
         ELSE hour >= 2
  ELSE IF month = 10
    THEN IF day < lastSunday(year, month) THEN TRUE
         ELSE IF day > lastSunday(year, month) THEN FALSE
         ELSE hour < 3
  ELSE FALSE

\* the year loop of syncTimeViaHTTP: the days of the years lo .. hi-1
RECURSIVE DaysOfYears(_, _)
DaysOfYears(lo, hi) ==
  IF hi <= lo THEN 0
  ELSE IF hi = lo + 1 THEN (IF IsLeap(lo) THEN 366 ELSE 365)
  ELSE LET mid == (lo + hi) \div 2
       IN DaysOfYears(lo, mid) + DaysOfYears(mid, hi)

\* a table whose February is never adjusted
daysInMonth_noleap(year) == <<31, 28, 31, 30, 31, 30, 31, 31, 30, 31, 30, 31>>

\* int daysInMonth[] after the leap adjustment; entry m is daysInMonth[m - 1]
daysInMonth(year) ==
  <<31, IF IsLeap(year) THEN 29 ELSE 28, 31, 30, 31, 30, 31, 31, 30, 31, 30, 31>>

\* the month loop: the days of the months 1 .. month-1
RECURSIVE DaysOfMonths(_, _)
DaysOfMonths(year, month) ==
  IF month <= 1 THEN 0
  ELSE DaysOfMonths(year, month - 1) + daysInMonth(year)[month - 1]

\* long days when the loops are done and day - 1 is added
DaysSince1970(year, month, day) ==
  DaysOfYears(FirstYear, year) + DaysOfMonths(year, month) + (day - 1)

\* the seconds added to days * 86400L
SecondsOfDay(hour, min, sec) == hour * 3600 + min * 60 + sec

\* time_t gmtEpoch
GmtEpoch(year, month, day, hour, min, sec) ==
  DaysSince1970(year, month, day) * 86400 + SecondsOfDay(hour, min, sec)

\* whether days * 86400L + hour * 3600L + min * 60L + sec stays within long
EpochFits(year, month, day, hour, min, sec) ==
  /\ DaysSince1970(year, month, day) >= 0
  /\ DaysSince1970(year, month, day) <= (MaxLong - SecondsOfDay(hour, min, sec)) \div 86400

\* a local epoch that is always one hour ahead
ItalianEpoch_std(gmtEpoch, inDST) == gmtEpoch + 3600

\* time_t italianEpoch
ItalianEpoch(gmtEpoch, inDST) == gmtEpoch + (IF inDST THEN 2 ELSE 1) * 3600

\* String::toInt(): leading whitespace, an optional sign, then the digits up
\* to the first other character; 0 when there is no digit
RECURSIVE DigitsValue(_, _)
DigitsValue(u, n) == IF n = 0 THEN 0 ELSE 10 * DigitsValue(u, n - 1) + (u[n] - D0)

ToInt(s) ==
  LET solid == {k \in 1..Len(s) : ~IsSpace(s[k])}
      t == IF solid = {} THEN <<>>
           ELSE SubSeq(s, CHOOSE k \in solid : \A j \in solid : k <= j, Len(s))
      signed == Len(t) > 0 /\ (t[1] = DASH \/ t[1] = PLUS)
      u == IF signed THEN Tail(t) ELSE t
      stops == {k \in 1..Len(u) : u[k] < D0 \/ u[k] > D0 + 9}
      n == IF stops = {} THEN Len(u) ELSE (CHOOSE k \in stops : \A j \in stops : k <= j) - 1
  IN IF signed /\ t[1] = DASH THEN 0 - DigitsValue(u, n) ELSE DigitsValue(u, n)

\* the first index at or after i of s that holds no white space, Len(s) + 1
\* when there is none
SkipSpace(s, i) ==
  LET solid == {k \in i..Len(s) : ~IsSpace(s[k])}
  IN IF solid = {} THEN (IF i > Len(s) THEN i ELSE Len(s) + 1)
     ELSE CHOOSE k \in solid : \A j \in solid : k <= j

\* the first index at or after i of s that holds no decimal digit
DigitsEnd(s, i) ==
  LET others == {k \in i..Len(s) : s[k] < D0 \/ s[k] > D0 + 9}
  IN IF others = {} THEN (IF i > Len(s) THEN i ELSE Len(s) + 1)
     ELSE CHOOSE k \in others : \A j \in others : k <= j

\* the digits of a %d conversion: they start at k and end before e
ScanDigits(s, k, e, neg) ==
  [ok |-> e > k,
   val |-> IF e <= k THEN 0
           ELSE IF neg THEN 0 - DigitsValue(SubSeq(s, k, e - 1), e - k)
           ELSE DigitsValue(SubSeq(s, k, e - 1), e - k),
   next |-> e]

\* a %d conversion once the white space is skipped up to j: an optional sign,
\* then at least one digit
ScanSigned(s, j) ==
  IF j <= Len(s) /\ (s[j] = DASH \/ s[j] = PLUS)
  THEN ScanDigits(s, j + 1, DigitsEnd(s, j + 1), s[j] = DASH)
  ELSE ScanDigits(s, j, DigitsEnd(s, j), FALSE)

\* the %d conversion of sscanf at index i
ScanInt(s, i) == ScanSigned(s, SkipSpace(s, i))

\* the %3s conversion at index i: white space is skipped, then up to three
\* characters that are not white space, at least one
ScanWord3(s, i) ==
  LET j == SkipSpace(s, i)
      stops == {k \in j..Len(s) : IsSpace(s[k])} \cup {j + 3, Len(s) + 1}
      e == CHOOSE k \in stops : \A x \in stops : k <= x
  IN [ok |-> j <= Len(s),
      val |-> IF j <= Len(s) THEN SubSeq(s, j, e - 1) ELSE <<>>,
      next |-> e]

\* the conversions of "%d %3s %d %d:%d:%d" from the k-th on, at index i of s:
\* the fifth and the sixth follow a colon; vals holds the values stored so
\* far, and the scan ends at the first conversion that fails
RECURSIVE ScanFormat(_, _, _, _)
RECURSIVE ScanStore(_, _, _, _)
ScanFormat(s, i, k, vals) ==
  IF k > 6 THEN vals
  ELSE IF k = 2 THEN ScanStore(s, k, vals, ScanWord3(s, i))
  ELSE IF k < 5 THEN ScanStore(s, k, vals, ScanInt(s, i))
  ELSE IF i <= Len(s) /\ s[i] = COLON THEN ScanStore(s, k, vals, ScanInt(s, i + 1))
  ELSE vals

ScanStore(s, k, vals, r) ==
  IF r.ok THEN ScanFormat(s, r.next, k + 1, Append(vals, r.val)) ELSE vals

\* the return value of sscanf and, when all six conversions were made, the
\* fields they stored
TmOf(vals) ==
  IF Len(vals) < 6
  THEN [parsed |-> Len(vals), tm_mday |-> 0, monthStr |-> <<>>, tm_year |-> 0,
        tm_hour |-> 0, tm_min |-> 0, tm_sec |-> 0]
  ELSE [parsed |-> 6, tm_mday |-> vals[1], monthStr |-> vals[2], tm_year |-> vals[3],
        tm_hour |-> vals[4], tm_min |-> vals[5], tm_sec |-> vals[6]]

\* sscanf(dateTime, "%d %3s %d %d:%d:%d", ...)
Sscanf(s) == TmOf(ScanFormat(s, 1, 1, <<>>))

\* the strcmp loop over months[]: tm_mon is the index of the name that
\* equals monthStr, and keeps the 0 of struct tm timeinfo = {0} when none does
MonthIndex(monthStr) ==
  IF \E i \in 1..12 : months[i] = monthStr
  THEN (CHOOSE i \in 1..12 : months[i] = monthStr) - 1
  ELSE 0

\* the lines readStringUntil('\n') returns for the text: the bytes up to each
\* newline, and the bytes after the last one if there are any
RECURSIVE LinesFrom(_, _)
LinesFrom(s, i) ==
  IF i > Len(s) THEN <<>>
  ELSE LET ends == {k \in i..Len(s) : s[k] = LF}
       IN IF ends = {} THEN <<SubSeq(s, i, Len(s))>>
          ELSE LET e == CHOOSE k \in ends : \A j \in ends : k <= j
               IN <<SubSeq(s, i, e - 1)>> \o LinesFrom(s, e + 1)

NoDateRead ==
  [ok |-> FALSE, year |-> 0, month |-> 0, day |-> 0, hour |-> 0, min |-> 0, sec |-> 0]

\* if (parsed == 6): the fields of the date, the month from the strcmp loop
DateOfTm(tm) ==
  IF tm.parsed = 6
  THEN [ok |-> TRUE, year |-> tm.tm_year, month |-> MonthIndex(tm.monthStr) + 1,
        day |-> tm.tm_mday, hour |-> tm.tm_hour, min |-> tm.tm_min, sec |-> tm.tm_sec]
  ELSE NoDateRead

\* a trimmed line: a Date header with a comma is cut two bytes after the
\* comma, trimmed and scanned
DateOfTrimmed(ln) ==
  IF StartsWith(ln, DateHdr) /\ IndexOf(ln, <<COMMA>>, 0) >= 0
  THEN DateOfTm(Sscanf(Trim(Substring(ln, IndexOf(ln, <<COMMA>>, 0) + 2, Len(ln)))))
  ELSE NoDateRead

\* what one pass of the while (httpClient.available()) loop makes of a line:
\* ok when the line is a Date header with a comma and six fields
DateOfLine(raw) == DateOfTrimmed(Trim(raw))

NoSyncResult ==
  [ret |-> FALSE, set |-> FALSE, year |-> 0, month |-> 0, day |-> 0, hour |-> 0,
   min |-> 0, sec |-> 0, gmtEpoch |-> 0, inDST |-> FALSE, italianEpoch |-> 0]

\* the date d was read: the epoch g is computed, isDST is asked, settimeofday
\* installs the local epoch, timeIsSynced = true and true is returned
SetTime(d, g, inDST) ==
  [ret |-> TRUE, set |-> TRUE, year |-> d.year, month |-> d.month,
   day |-> d.day, hour |-> d.hour, min |-> d.min, sec |-> d.sec,
   gmtEpoch |-> g, inDST |-> inDST, italianEpoch |-> ItalianEpoch(g, inDST)]

\* the while (httpClient.available()) loop from line k on: the first line
\* that yields a date ends the function, false is returned when none does
RECURSIVE ReadLines(_, _)
RECURSIVE ReadDate(_, _, _)
ReadLines(lines, k) ==
  IF k > Len(lines) THEN NoSyncResult
  ELSE ReadDate(lines, k, DateOfLine(lines[k]))

ReadDate(lines, k, d) ==
  IF d.ok
  THEN SetTime(d, GmtEpoch(d.year, d.month, d.day, d.hour, d.min, d.sec),
               isDST(d.year, d.month, d.day, d.hour))
  ELSE ReadLines(lines, k + 1)

\* bool syncTimeViaHTTP(): r is what the time server does: whether connect()
\* succeeds and the bytes of its answer that are there to read before
\* httpClient.available() turns 0. The result says what was returned, whether
\* settimeofday was called and with what.
syncTimeViaHTTP(r) ==
  IF ~r.connect \/ r.upto = 0 THEN NoSyncResult
  ELSE ReadLines(LinesFrom(SubSeq(r.text, 1, r.upto), 1), 1)

\* ---- what the time server can answer
TwoDigits(n) == <<D0 + (n \div 10), D0 + (n % 10)>>

\* "DD Mon YYYY HH:MM" and "DD Mon YYYY HH:MM:SS" for the fields f, the
\* month by name
DateMinutes(f, monthName) ==
  TwoDigits(f.day) \o <<SP>> \o monthName \o <<SP>> \o Decimal(f.year) \o <<SP>>
    \o TwoDigits(f.hour) \o <<COLON>> \o TwoDigits(f.min)
DateSeconds(f, monthName) == DateMinutes(f, monthName) \o <<COLON>> \o TwoDigits(f.sec)

\* "Date: Tue, DD Mon YYYY HH:MM:SS GMT"
DateLine(f, monthName) ==
  DateHdr \o DayName \o <<COMMA, SP>> \o DateSeconds(f, monthName) \o GmtSuffix

\* the answer to HEAD /: status line, the given header line, blank line
ResponseText(headerLine) == StatusLine \o CRLF \o headerLine \o CRLF \o CRLF

Date(y, mo, d, h, mi, s) ==
  [year |-> y, month |-> mo, day |-> d, hour |-> h, min |-> mi, sec |-> s]
NoDate == Date(0, 0, 0, 0, 0, 0)

\* dates the server reports: around both changes of 2024, mid summer, mid
\* winter, a leap day, the last second of 2037
SyncDates ==
  { Date(2024, 3, 31, 1, 59, 59), Date(2024, 3, 31, 2, 0, 0),
    Date(2024, 10, 27, 2, 59, 59), Date(2024, 10, 27, 3, 0, 0),
    Date(2023, 7, 15, 12, 30, 15), Date(2024, 2, 29, 23, 59, 59),
    Date(2024, 11, 15, 8, 12, 31), Date(LastLongYear, 12, 31, 23, 59, 59) }

\* a server that answers text, of which upto bytes are read before
\* available() is 0; of is the date a well-formed Date header states
Answer200(text, upto, of) == [connect |-> TRUE, text |-> text, upto |-> upto, of |-> of]

Whole200(text, of) == Answer200(text, Len(text), of)

\* connect() fails
Refused == [connect |-> FALSE, text |-> <<>>, upto |-> 0, of |-> NoDate]

GoodResponse(f) == Whole200(ResponseText(DateLine(f, months[f.month])), f)

November == Date(2024, 11, 15, 8, 12, 31)

\* answers that carry no usable date: nothing at all within the wait, only
\* the status line in time, no Date header, a Date header without comma,
\* with the month spelled out, without seconds, with a month name that is
\* not in the table
BadResponses ==
  { Answer200(ResponseText(DateLine(November, months[11])), 0, NoDate),
    Answer200(ResponseText(DateLine(November, months[11])), Len(StatusLine) + 2, NoDate),
    Whole200(ResponseText(CookieHdr \o SessionIdEq), NoDate),
    Whole200(ResponseText(DateHdr \o DateSeconds(November, months[11]) \o GmtSuffix), NoDate),
    Whole200(ResponseText(DateLine(November, LongMonth)), NoDate),
    Whole200(ResponseText(DateHdr \o DayName \o <<COMMA, SP>>
                            \o DateMinutes(November, months[11]) \o GmtSuffix), NoDate),
    Whole200(ResponseText(DateLine(November, UnknownMonth)), NoDate) }

\* a well-formed answer of which the last digit of the seconds comes late
LateTail ==
  Answer200(ResponseText(DateLine(November, months[11])),
            Len(ResponseText(DateLine(November, months[11]))) - 9, NoDate)

Responses == {Refused, LateTail} \cup BadResponses \cup {GoodResponse(f) : f \in SyncDates}

\* the answers met by the hourly check and after a restart
LoopResponses ==
  {Refused, GoodResponse(November),
   Whole200(ResponseText(DateLine(November, UnknownMonth)), NoDate)}

\* ---- the calls of syncTimeViaHTTP
NoProbe ==
  [year |-> 0, month |-> 0, day |-> 0, dst |-> [h \in 0..23 |-> FALSE], lastSunday |-> 0,
   days |-> 0, fits |-> FALSE, gmtEpoch |-> 0]

NoSync ==
  [from |-> "none", resp |-> Refused, res |-> NoSyncResult, pre |-> FALSE, preClock |-> 0,
   at |-> 0, since |-> 0, pcAt |-> "setup"]

\* a run of syncTimeViaHTTP() against the answer resp, called from setup()
\* or from loop(): settimeofday installs the epoch, timeIsSynced = true
SyncCall(resp, from, synced) ==
  \E res \in {syncTimeViaHTTP(resp)} :
    /\ timeIsSynced' = (synced \/ res.ret)
    /\ clock' = IF res.set THEN res.italianEpoch ELSE clock
    /\ sync' = [from |-> from, resp |-> resp, res |-> res, pre |-> synced,
                preClock |-> clock, at |-> now, since |-> lastSync, pcAt |-> pc]

\* the state setup() leaves when initTime() met the answer resp
TimeAfterSetup(resp) ==
  \E res \in {syncTimeViaHTTP(resp)} :
    /\ timeIsSynced = res.ret
    /\ lastSync = 0
    /\ clock = (IF res.set THEN res.italianEpoch ELSE 0)
    /\ sync = [from |-> "setup", resp |-> resp, res |-> res, pre |-> FALSE,
               preClock |-> 0, at |-> 0, since |-> 0, pcAt |-> "setup"]
    /\ probe = NoProbe

\* ---- GET /api/time
\* gmtime_r(&t, &timeinfo): the calendar fields of the epoch t >= 0, by the
\* days since 1970-01-01 counted in 400-year eras that begin on 1 March
EraDay(days) == (days + 719468) % 146097
YearOfEra(doe) == (doe - doe \div 1460 + doe \div 36524 - doe \div 146096) \div 365
DayOfYear(doe, yoe) == doe - (365 * yoe + yoe \div 4 - yoe \div 100)
MonthFromMarch(doy) == (5 * doy + 2) \div 153
CivilDate(era, yoe, doy, mp, secs) ==
  [year |-> yoe + era * 400 + (IF mp < 10 THEN 0 ELSE 1),
   month |-> IF mp < 10 THEN mp + 3 ELSE mp - 9,
   day |-> doy - (153 * mp + 2) \div 5 + 1,
   hour |-> secs \div 3600, min |-> (secs % 3600) \div 60, sec |-> secs % 60]
CivilOfEra(era, doe, yoe, secs) ==
  CivilDate(era, yoe, DayOfYear(doe, yoe), MonthFromMarch(DayOfYear(doe, yoe)), secs)
gmtime_r(t) ==
  CivilOfEra((t \div 86400 + 719468) \div 146097, EraDay(t \div 86400),
             YearOfEra(EraDay(t \div 86400)), t % 86400)

\* void handleAPIGetTime(client): time(&now) reads the local epoch that was
\* installed, gmtime_r breaks it up and isDST is asked about those fields
handleAPIGetTime(t) ==
  [timeinfo |-> gmtime_r(t),
   inDST |-> isDST(gmtime_r(t).year, gmtime_r(t).month, gmtime_r(t).day, gmtime_r(t).hour)]

\* GET /api/time served before the clock has moved on from the epoch the
\* last sync installed
ApiGetTime ==
  /\ pc = "accept"
  /\ sync.res.set
  /\ now = sync.at
  /\ \E a \in {handleAPIGetTime(clock)} :
       api' = [NoApi EXCEPT !.op = "time", !.status = 200, !.success = TRUE,
                            !.msg = IF a.inDST THEN "CEST" ELSE "CET",
                            !.count = clock, !.items = <<a.timeinfo>>]
  /\ UNCHANGED <<prefs, ops, fillRun, sessVars, connVars, otaVars, parseVars, timeVars>>

\* initTime() at the end of setup()
InitTime ==
  /\ pc = "setup"
  /\ pc' = "accept"
  /\ \E resp \in Responses : SyncCall(resp, "setup", FALSE)
  /\ UNCHANGED <<sessVars, conns, req, sent, pos, closed, waiting, otaVars, storeVars,
                 parseVars, lastSync, probe>>

\* ---- the calendar functions applied to a date
\* the calendar functions applied to a day of the year and month chosen:
\* isDST for every hour of the day, the last Sunday it computes, and the
\* epoch arithmetic for midnight of the day
ProbeDate ==
  /\ pc = "setup"
  /\ probe.year # 0
  /\ probe.day = 0
  /\ \E d \in 1..31 :
     \E n \in {DaysSince1970(probe.year, probe.month, d)} :
     \E fit \in {n >= 0 /\ n <= (MaxLong - SecondsOfDay(23, 59, 59)) \div 86400} :
       probe' = [year |-> probe.year, month |-> probe.month, day |-> d,
                 dst |-> [h \in 0..23 |-> isDST(probe.year, probe.month, d, h)],
                 lastSunday |-> lastSunday(probe.year, probe.month),
                 days |-> n,
                 fits |-> fit,
                 gmtEpoch |-> IF fit THEN n * 86400 + SecondsOfDay(0, 0, 0) ELSE 0]
  /\ UNCHANGED <<sessVars, connVars, otaVars, storeVars, parseVars, timeIsSynced, lastSync,
                 clock, sync>>

\* ESP.restart(): the device boots again, every global is re-initialised and
\* setup() runs, initTime() included
Boot ==
  /\ pc = "restart"
  /\ pc' = "accept"
  /\ currentSession' = BootSession
  /\ now' = 0
  /\ idle' = 0
  /\ chainOK' = FALSE
  /\ expired' = FALSE
  /\ streak' = 0
  /\ destroyed' = FALSE
  /\ prior' = ""
  /\ call' = NoCall
  /\ req' = NoRequest
  /\ sent' = 0
  /\ pos' = 0
  /\ closed' = FALSE
  /\ waiting' = FALSE
  /\ updState' = "idle"
  /\ FreshUpload
  /\ \E resp \in LoopResponses : SyncCall(resp, "setup", FALSE)
  /\ lastSync' = 0
  /\ UNCHANGED <<ticks, conns, storeVars, parseVars, probe>>

(* --------------------------- the request parser ------------------------ *)
\* the locals of loop() when a client has been accepted
FreshParser ==
  [currentLineIsBlank |-> TRUE, currentLine |-> <<>>, requestPath |-> <<>>,
   requestMethod |-> <<>>, contentLength |-> 0, contentType |-> <<>>,
   cookieHeader |-> <<>>]

\* the part of the loop body from char c = client.read() to the header
\* prefix checks: the line grows by c and is examined again
ParseStep(p, c) ==
  LET l == IF c # LF /\ c # CR THEN Append(p.currentLine, c) ELSE p.currentLine
      isRequestLine == StartsWith(l, GetSp) \/ StartsWith(l, PostSp) \/ StartsWith(l, DeleteSp)
      firstSpace == IndexOf(l, <<SP>>, 0)
      secondSpace == IndexOf(l, <<SP>>, firstSpace + 1)
      split == isRequestLine /\ secondSpace > 0
  IN [p EXCEPT
        !.currentLine = l,
        !.requestMethod = IF split THEN Substring(l, 0, firstSpace) ELSE @,
        !.requestPath = IF split THEN Substring(l, firstSpace + 1, secondSpace) ELSE @,
        !.contentLength = IF StartsWith(l, ContentLengthHdr)
                          THEN ToInt(Substring(l, 16, Len(l))) ELSE @,
        !.contentType = IF StartsWith(l, ContentTypeHdr)
                        THEN Trim(Substring(l, 14, Len(l))) ELSE @,
        !.cookieHeader = IF StartsWith(l, CookieHdr)
                         THEN Trim(Substring(l, 8, Len(l))) ELSE @]

\* a parser that takes every newline for the end of the headers
EndOfHeaders_anyline(p, c) == c = LF

\* if (c == '\n' && currentLineIsBlank)
EndOfHeaders(p, c) == c = LF /\ p.currentLineIsBlank

\* a parser that keeps the line when a newline is read
EndOfByte_keepline(p, c) ==
  IF c = LF THEN [p EXCEPT !.currentLineIsBlank = TRUE]
  ELSE IF c # CR THEN [p EXCEPT !.currentLineIsBlank = FALSE]
  ELSE p

\* the end of the loop body: a newline starts a blank line, any character
\* but '\r' makes the line non-blank
EndOfByte(p, c) ==
  IF c = LF THEN [p EXCEPT !.currentLineIsBlank = TRUE, !.currentLine = <<>>]
  ELSE IF c # CR THEN [p EXCEPT !.currentLineIsBlank = FALSE]
  ELSE p

\* String extractCookie(cookieHeader, "sessionId")
extractCookie(cookieHeader) ==
  LET startPos == IndexOf(cookieHeader, SessionIdEq, 0)
      from == startPos + Len(SessionIdEq)
      endPos == IndexOf(cookieHeader, <<SEMI>>, from)
  IN IF startPos < 0 THEN <<>>
     ELSE IF endPos < 0 THEN Substring(cookieHeader, from, Len(cookieHeader))
     ELSE Substring(cookieHeader, from, endPos)

\* the text of the session tokens of the model
TokenText == [t \in Tokens |->
                IF t = "t1" THEN <<TT, D0 + 1>>
                ELSE IF t = "t2" THEN <<TT, D0 + 2>>
                ELSE IF t = "zz" THEN <<122, 122>>
                ELSE <<>>]

\* the token a cookie value spells; any other text is a token never issued
CookieToken(text) ==
  IF \E t \in Tokens : TokenText[t] = text
  THEN CHOOSE t \in Tokens : TokenText[t] = text
  ELSE "zz"

\* what handleOTAUpload makes of the Content-Type header's value
ContentTypeOf(ct) ==
  LET bPos == IndexOf(ct, BoundaryEq, 0)
  IN [mime |-> IF StartsWith(ct, MultipartFormData) THEN "multipart/form-data"
               ELSE "text/plain",
      hasBoundary |-> bPos >= 0,
      token |-> IF bPos >= 0 THEN Trim(Substring(ct, bPos + 9, Len(ct))) ELSE <<>>]

\* a route handling without the logout path
Route_nologout(method, path) ==
  IF method = MethodGet
  THEN IF path = PathRoot \/ path = <<>> THEN "root"
       ELSE IF StartsWith(path, PathApi)
         THEN IF path = PathApiKeys THEN "getkeys"
              ELSE IF path = PathApiTime THEN "gettime"
              ELSE IF path = PathApiPrint THEN "print"
              ELSE "404"
       ELSE "404"
  ELSE IF method = MethodPost
  THEN IF path = PathLogin THEN "login"
       ELSE IF path = PathDoUpdate THEN "doupdate"
       ELSE IF StartsWith(path, PathApi)
         THEN IF path = PathApiKeys THEN "addkey"
              ELSE IF path = PathApiInsert THEN "insert"
              ELSE IF path = PathApiRemove THEN "remove"
              ELSE "404"
       ELSE "404"
  ELSE IF method = MethodDelete
  THEN IF path = PathApiKeys THEN "deletekey" ELSE "404"
  ELSE "404"

\* the route handling of loop(): the handler a method and a path lead to
Route(method, path) ==
  IF method = MethodGet
  THEN IF path = PathRoot \/ path = <<>> THEN "root"
       ELSE IF path = PathLogout THEN "logout"
       ELSE IF StartsWith(path, PathApi)
         THEN IF path = PathApiKeys THEN "getkeys"
              ELSE IF path = PathApiTime THEN "gettime"
              ELSE IF path = PathApiPrint THEN "print"
              ELSE "404"
       ELSE "404"
  ELSE IF method = MethodPost
  THEN IF path = PathLogin THEN "login"
       ELSE IF path = PathDoUpdate THEN "doupdate"
       ELSE IF StartsWith(path, PathApi)
         THEN IF path = PathApiKeys THEN "addkey"
              ELSE IF path = PathApiInsert THEN "insert"
              ELSE IF path = PathApiRemove THEN "remove"
              ELSE "404"
       ELSE "404"
  ELSE IF method = MethodDelete
  THEN IF path = PathApiKeys THEN "deletekey" ELSE "404"
  ELSE "404"

\* void handleLogin(client, contentLength): whether createSession() is called
handleLogin(r) ==
  IF r.contentLength <= 0 \/ r.contentLength > MaxKeyBody THEN FALSE
  ELSE LET body == ReadBody(r)
           pwdPos == IndexOf(body, PasswordEq, 0)
       IN IF pwdPos < 0 THEN FALSE
          ELSE urlDecode(Substring(body, pwdPos + 9, Len(body))) = ADMIN_PASSWORD

\* a password that differs from ADMIN_PASSWORD in its last character
WrongPassword == SubSeq(ADMIN_PASSWORD, 1, Len(ADMIN_PASSWORD) - 1) \o <<D0 + 4>>

\* the requests of the parser's clients, as sent: request line, headers,
\* blank line, body
HeaderLine(name, value) == name \o value \o CRLF
RequestText(method, path, headers, body) ==
  method \o <<SP>> \o path \o Proto \o CRLF \o headers \o CRLF \o body

ParseStreams ==
  { RequestText(MethodGet, PathRoot, HeaderLine(CookieHdr, SessionIdEq \o TokenText["t1"]), <<>>),
    RequestText(MethodGet, PathLogout, <<>>, <<>>),
    RequestText(MethodGet, PathLogout, HeaderLine(CookieHdr, SessionIdEq \o TokenText["zz"]),
                <<>>),
    RequestText(MethodPost, PathLogin, HeaderLine(ContentLengthHdr, Decimal(17)),
                PasswordEq \o ADMIN_PASSWORD),
    RequestText(MethodPost, PathLogin, HeaderLine(ContentLengthHdr, Decimal(17)),
                PasswordEq \o WrongPassword),
    RequestText(MethodPost, PathLogin, HeaderLine(ContentLengthHdr, Decimal(13)),
                SubSeq(PasswordEq, 1, 4) \o <<61>> \o ADMIN_PASSWORD),
    RequestText(MethodPost, PathLogin, HeaderLine(ContentLengthHdr, Decimal(MaxKeyBody + 1)),
                PasswordEq \o ADMIN_PASSWORD),
    RequestText(MethodPost, PathApiKeys, HeaderLine(ContentLengthHdr, Decimal(7)),
                FormValue(<<BB>>)),
    RequestText(MethodDelete, PathApiKeys, HeaderLine(ContentLengthHdr, Decimal(6)),
                FormKey(KeyNames[0])),
    RequestText(MethodGet, PathApiKeys, <<>>, <<>>),
    RequestText(MethodPost, PathDoUpdate, <<>>, <<>>),
    <<LF>> }

\* lines of a header block, without their line end: request lines with and
\* without a second space and with two spaces in a row, Content-Length with
\* digits only and with a letter after the digit, a Content-Type with spaces
\* around its value, a Cookie, a line that holds "GET " after its first byte
HeaderTexts ==
  { MethodGet \o <<SP>> \o PathLogout \o Proto,
    MethodGet \o <<SP>> \o PathRoot,
    MethodPost \o <<SP, SP>> \o PathLogin,
    ContentLengthHdr \o Decimal(17),
    ContentLengthHdr \o <<D0 + 7, XX>>,
    ContentTypeHdr \o <<SP>> \o MultipartFormData \o <<SP>>,
    CookieHdr \o SessionIdEq \o TokenText["t1"],
    <<XX>> \o GetSp \o PathRoot \o Proto }

\* the texts of up to n lines, each ended by e
RECURSIVE LinesUpTo(_, _)
LinesUpTo(n, e) ==
  IF n = 0 THEN {<<>>}
  ELSE LinesUpTo(n - 1, e)
       \cup {b \o t \o e : b \in LinesUpTo(n - 1, e), t \in HeaderTexts}

\* header blocks: up to MaxLines complete lines and a blank line, the line
\* ends all "\r\n" or all "\n"
HeaderBlocks == UNION {{b \o e : b \in LinesUpTo(MaxLines, e)} : e \in {CRLF, <<LF>>}}

\* a response that is no redirect
NoRedirect == [location |-> "", cookie |-> "none"]

\* the state the handlers can change, as it is when a client is accepted
Snapshot ==
  [session |-> currentSession, prefs |-> prefs, call |-> call, api |-> api,
   timeIsSynced |-> timeIsSynced', lastSync |-> lastSync', clock |-> clock',
   sync |-> sync']

NoSnapshot ==
  [session |-> BootSession, prefs |-> <<>>, call |-> NoCall, api |-> NoApi,
   timeIsSynced |-> FALSE, lastSync |-> 0, clock |-> 0, sync |-> NoSync]

\* the hourly check at the top of loop(): more than SYNC_INTERVAL since lastSync
SyncDue == (now - lastSync) % MillisModulus > SYNC_INTERVAL

\* a loop() that tries to sync at every due check, synced or not
LoopTop_always ==
  /\ IF SyncDue
     THEN /\ lastSync' = now
          /\ \E resp \in LoopResponses : SyncCall(resp, "loop", timeIsSynced)
     ELSE UNCHANGED <<timeIsSynced, lastSync, clock, sync>>
  /\ UNCHANGED probe

\* the top of loop() marking a synced clock stale at a due check, so that
\* the next due check syncs again
LoopTop_stale ==
  /\ IF SyncDue
     THEN /\ lastSync' = now
          /\ IF ~timeIsSynced
             THEN \E resp \in LoopResponses : SyncCall(resp, "loop", timeIsSynced)
             ELSE timeIsSynced' = FALSE /\ UNCHANGED <<clock, sync>>
     ELSE UNCHANGED <<timeIsSynced, lastSync, clock, sync>>
  /\ UNCHANGED probe

\* the top of loop(): when the check is due and the clock is not synced,
\* syncTimeViaHTTP() is called; lastSync = millis() after a due check
LoopTop ==
  /\ IF SyncDue
     THEN /\ lastSync' = now
          /\ IF ~timeIsSynced
             THEN \E resp \in LoopResponses : SyncCall(resp, "loop", timeIsSynced)
             ELSE UNCHANGED <<timeIsSynced, clock, sync>>
     ELSE UNCHANGED <<timeIsSynced, lastSync, clock, sync>>
  /\ UNCHANGED probe

\* a pass of loop() in which server.available() returns no client
LoopIdle ==
  /\ pc = "accept"
  /\ SyncDue
  /\ LoopTop
  /\ UNCHANGED <<sessVars, connVars, otaVars, storeVars, parseVars>>

\* between two passes of loop() with no client a little more than an hour
\* goes by
ParseWait ==
  /\ pc = "accept"
  /\ accepted + ticks < MaxParsed
  /\ now' = (now + SYNC_INTERVAL + 1) % MillisModulus
  /\ idle' = idle + SYNC_INTERVAL + 1
  /\ ticks' = ticks + 1
  /\ UNCHANGED <<currentSession, chainOK, expired, streak, destroyed, prior, call,
                 connVars, otaVars, storeVars, parseVars, timeVars>>

\* a pass of loop() in which server.available() returns a client
ParseAccept ==
  /\ pc = "accept"
  /\ accepted + ticks < MaxParsed
  /\ LoopTop
  /\ \E s \in ParseStreams : wire' = s
  /\ accepted' = accepted + 1
  /\ pc' = "parse"
  /\ arrived' = 0
  /\ consumed' = 0
  /\ peerClosed' = FALSE
  /\ parser' = FreshParser
  /\ handler' = "none"
  /\ replied' = 0
  /\ redirect' = NoRedirect
  /\ stopped' = FALSE
  /\ snap' = Snapshot
  /\ UNCHANGED <<sessVars, conns, req, sent, pos, closed, waiting, otaVars, storeVars>>

\* offsets of the text w at which a segment of the client can end: after the
\* first byte, before and after every newline, at the end
ParseCuts(w) ==
  {k \in 1..Len(w) : k = 1 \/ k = Len(w) \/ w[k] = LF \/ (k < Len(w) /\ w[k + 1] = LF)}

\* bytes of the request arrive at the socket
ParseArrive ==
  /\ pc = "parse"
  /\ ~peerClosed
  /\ \E k \in ParseCuts(wire) : k > arrived /\ arrived' = k
  /\ UNCHANGED <<sessVars, connVars, otaVars, storeVars, timeVars, wire, consumed,
                 peerClosed, parser, handler, replied, redirect, stopped,
                 accepted, snap>>

\* the client closes the connection
ParseClose ==
  /\ pc = "parse"
  /\ ~peerClosed
  /\ peerClosed' = TRUE
  /\ UNCHANGED <<sessVars, connVars, otaVars, storeVars, timeVars, wire, arrived,
                 consumed, parser, handler, replied, redirect, stopped,
                 accepted, snap>>

\* a handler after which the connection is left open
Served_open(code) ==
  /\ replied' = code
  /\ redirect' = NoRedirect
  /\ stopped' = FALSE
  /\ pc' = "accept"
  /\ UNCHANGED <<conns, req, sent, pos, closed, waiting, otaVars>>

\* the handler has written its response with the given status and returned:
\* break, delay(1), client.stop()
Served(code) ==
  /\ replied' = code
  /\ redirect' = NoRedirect
  /\ stopped' = TRUE
  /\ pc' = "accept"
  /\ UNCHANGED <<conns, req, sent, pos, closed, waiting, otaVars>>

\* the handler has answered 302 Found with the given Location and, unless
\* cookie is "none", a Set-Cookie header for that sessionId, and returned
Redirected(location, cookie) ==
  /\ replied' = 302
  /\ redirect' = [location |-> location, cookie |-> cookie]
  /\ stopped' = TRUE
  /\ pc' = "accept"
  /\ UNCHANGED <<conns, req, sent, pos, closed, waiting, otaVars>>

\* a handler of the key-value store ran with result a
ServedStore(op, r, a) ==
  /\ Handled(op, r, a)
  /\ ops' = ops + 1
  /\ UNCHANGED <<fillRun, sessVars>>
  /\ Served(a.status)

\* the route handling at the end of the headers: p holds the parsed request,
\* r the body as the handler finds it
Dispatch(p, r) ==
  LET h == Route(p.requestMethod, p.requestPath)
      sessionId == CookieToken(extractCookie(p.cookieHeader))
  IN /\ handler' = h
     /\ CASE h = "root" ->
               /\ ValidateCall(sessionId)
               /\ Served(200)
               /\ UNCHANGED storeVars
          [] h = "logout" ->
               /\ DestroyCall
               /\ Redirected("/", "")
               /\ UNCHANGED storeVars
          [] h = "login" ->
               /\ IF handleLogin(r)
                  THEN \E tok \in GeneratedTokens :
                         /\ CreateCall(tok)
                         /\ Redirected("/", tok)
                  ELSE /\ UNCHANGED sessVars
                       /\ Redirected("/?error=1", "none")
               /\ UNCHANGED storeVars
          [] h = "getkeys" -> ServedStore("keys", r, handleAPIGetKeys(prefs))
          [] h = "print" -> ServedStore("print", r, handleAPIPrint(prefs))
          [] h = "addkey" -> ServedStore("add", r, handleAPIAddKey(prefs, r))
          [] h = "insert" -> ServedStore("insert", r, handleAPIInsert(prefs, r))
          [] h = "remove" -> ServedStore("remove", r, handleAPIRemove(prefs, r))
          [] h = "deletekey" -> ServedStore("delete", r, handleAPIDeleteKey(prefs, r))
          [] h = "gettime" ->
               /\ Served(200)
               /\ UNCHANGED <<sessVars, storeVars>>
          [] h = "404" ->
               /\ Served(404)
               /\ UNCHANGED <<sessVars, storeVars>>
          [] h = "doupdate" ->
               /\ pc' = "route"
               /\ req' = [tok |-> sessionId, ctype |-> ContentTypeOf(p.contentType),
                          body |-> r.body]
               /\ sent' = r.avail
               /\ pos' = 0
               /\ closed' = peerClosed
               /\ waiting' = FALSE
               /\ FreshUpload
               /\ replied' = 0
               /\ redirect' = NoRedirect
               /\ stopped' = FALSE
               /\ UNCHANGED <<sessVars, storeVars, conns, updState>>

\* one pass of the while loop with a byte available
ParseByte ==
  /\ pc = "parse"
  /\ arrived > consumed
  /\ consumed' = consumed + 1
  /\ \E c \in {wire[consumed + 1]} :
     \E p \in {ParseStep(parser, c)} :
       IF EndOfHeaders(parser, c)
       THEN /\ parser' = p
            /\ Dispatch(p, [contentLength |-> p.contentLength,
                            body |-> SubSeq(wire, consumed + 2, Len(wire)),
                            avail |-> arrived - (consumed + 1)])
       ELSE /\ parser' = EndOfByte(p, c)
            /\ UNCHANGED <<sessVars, connVars, otaVars, storeVars, handler, replied,
                           redirect, stopped>>
  /\ UNCHANGED <<timeVars, wire, arrived, peerClosed, accepted, snap>>

\* client.connected() is false: the while loop ends, delay(1), client.stop()
ParseDrop ==
  /\ pc = "parse"
  /\ peerClosed
  /\ arrived = consumed
  /\ pc' = "accept"
  /\ stopped' = TRUE
  /\ UNCHANGED <<sessVars, conns, req, sent, pos, closed, waiting, otaVars, storeVars,
                 timeVars, wire, arrived, consumed, peerClosed, parser, handler, replied, redirect,
                 accepted, snap>>

ParseInit ==
  /\ wire = <<>>
  /\ arrived = 0
  /\ consumed = 0
  /\ peerClosed = FALSE
  /\ parser = FreshParser
  /\ handler = "none"
  /\ replied = 0
  /\ redirect = NoRedirect
  /\ stopped = FALSE
  /\ accepted = 0
  /\ snap = NoSnapshot

\* bool timeIsSynced = false; static unsigned long lastSync = 0; the sync
\* attempt of initTime() has failed
TimeInit == TimeAfterSetup(Refused)

(* --------------------------- specifications ---------------------------- *)
\* the session slot under login, logout, validation and the passing of time
Init == SessInit /\ ConnInit /\ OtaInit /\ StoreInit /\ ParseInit /\ TimeInit
Next == GetRoot \/ PostLogin \/ GetLogout \/ ClockTick
Spec == Init /\ [][Next]_vars

\* session states in which an upload request can find the device: after
\* boot, and after a login left idle for exactly the timeout or for longer
UploadSessions ==
  { [s |-> BootSession, t |-> 0, chain |-> FALSE],
    [s |-> createSession("t1", 0), t |-> SESSION_TIMEOUT, chain |-> TRUE],
    [s |-> createSession("t1", 0), t |-> SESSION_TIMEOUT + 1, chain |-> TRUE] }

InitUpload ==
  /\ \E u \in UploadSessions :
       /\ currentSession = u.s
       /\ now = u.t
       /\ idle = u.t
       /\ chainOK = u.chain
  /\ ticks = 0
  /\ expired = FALSE
  /\ streak = 0
  /\ destroyed = FALSE
  /\ prior = ""
  /\ call = NoCall
  /\ ConnInit
  /\ OtaInit
  /\ StoreInit
  /\ ParseInit
  /\ TimeInit

NextUpload ==
  \/ Accept \/ Arrive \/ Close \/ RouteDoUpdate
  \/ ReadByte \/ ReadLineWait \/ ReadLineFail
  \/ PayloadRead \/ PayloadWait \/ PayloadDrop
  \/ Boot

SpecUpload == InitUpload /\ [][NextUpload]_vars

\* the steps of the single control thread inside the upload route: the thread
\* always runs, so a step of it that stays possible is eventually taken;
\* nothing obliges a peer to connect, to send or to close
HandlerStep ==
  \/ RouteDoUpdate
  \/ ReadByte \/ ReadLineWait \/ ReadLineFail
  \/ PayloadRead \/ PayloadWait \/ PayloadDrop

SpecUploadRun == SpecUpload /\ WF_vars(HandlerStep)

\* findMultipartField: the operator is logged in and posts a body that has
\* arrived whole; the client then keeps the connection open or has closed it
InitField ==
  /\ currentSession = createSession("t1", 0)
  /\ now = 0
  /\ idle = 0
  /\ chainOK = TRUE
  /\ ticks = 0
  /\ expired = FALSE
  /\ streak = 0
  /\ destroyed = FALSE
  /\ prior = ""
  /\ call = NoCall
  /\ pc = "route"
  /\ conns = 1
  /\ \E b \in FieldBodies :
       /\ req = [tok |-> "t1", ctype |-> MultipartB, body |-> b]
       /\ sent = Len(b)
  /\ pos = 0
  /\ closed \in BOOLEAN
  /\ waiting = FALSE
  /\ OtaInit
  /\ StoreInit
  /\ ParseInit
  /\ TimeInit

NextField == RouteDoUpdate \/ ReadByte \/ ReadLineWait \/ ReadLineFail
SpecField == InitField /\ [][NextField]_vars

\* findMultipartField with the control thread always running
SpecFieldRun == SpecField /\ WF_vars(HandlerStep)

\* the payload loop: the operator is logged in and posts one firmware part,
\* which arrives in segments
InitWindow ==
  /\ currentSession = createSession("t1", 0)
  /\ now = 0
  /\ idle = 0
  /\ chainOK = TRUE
  /\ ticks = 0
  /\ expired = FALSE
  /\ streak = 0
  /\ destroyed = FALSE
  /\ prior = ""
  /\ call = NoCall
  /\ pc = "route"
  /\ conns = 1
  /\ req \in WindowRequests
  /\ sent = 0
  /\ pos = 0
  /\ closed = FALSE
  /\ waiting = FALSE
  /\ OtaInit
  /\ StoreInit
  /\ ParseInit
  /\ TimeInit

NextWindow ==
  \/ Arrive \/ Close \/ RouteDoUpdate
  \/ ReadByte \/ ReadLineWait \/ ReadLineFail
  \/ PayloadRead \/ PayloadWait \/ PayloadDrop

SpecWindow == InitWindow /\ [][NextWindow]_vars

\* the key-value store under the HTTP requests that read and change it
NextStore ==
  \/ FillAdd \/ ApiAddKey \/ ApiInsert \/ ApiDeleteKey \/ ApiRemove
  \/ ApiGetKeys \/ ApiPrint

SpecStore == Init /\ [][NextStore]_vars

\* the request parser of loop(): setup() has just returned, the clock synced
\* by initTime() or not
InitParse ==
  /\ now = 0
  /\ idle = 0
  /\ currentSession = BootSession
  /\ ticks = 0
  /\ chainOK = FALSE
  /\ expired = FALSE
  /\ streak = 0
  /\ destroyed = FALSE
  /\ prior = ""
  /\ call = NoCall
  /\ ConnInit /\ OtaInit /\ StoreInit /\ ParseInit
  /\ \E resp \in {Refused, GoodResponse(November)} : TimeAfterSetup(resp)

NextParse ==
  \/ LoopIdle \/ ParseWait \/ ParseAccept \/ ParseArrive \/ ParseClose \/ ParseByte
  \/ ParseDrop

SpecParse == InitParse /\ [][NextParse]_vars

\* the parser of loop() fed a header block that has arrived whole
InitHeaders ==
  /\ SessInit /\ OtaInit /\ StoreInit /\ TimeInit
  /\ pc = "parse"
  /\ conns = 0
  /\ req = NoRequest
  /\ sent = 0
  /\ pos = 0
  /\ closed = FALSE
  /\ waiting = FALSE
  /\ wire \in HeaderBlocks
  /\ arrived = Len(wire)
  /\ consumed = 0
  /\ peerClosed = FALSE
  /\ parser = FreshParser
  /\ handler = "none"
  /\ replied = 0
  /\ redirect = NoRedirect
  /\ stopped = FALSE
  /\ accepted = 1
  /\ snap = NoSnapshot

NextHeaders == ParseByte
SpecHeaders == InitHeaders /\ [][NextHeaders]_vars

\* setup() up to the call of initTime(): nothing is stored, no session, the
\* clock never set
BeforeInitTime ==
  /\ SessInit /\ OtaInit /\ StoreInit /\ ParseInit
  /\ pc = "setup"
  /\ conns = 0
  /\ req = NoRequest
  /\ sent = 0
  /\ pos = 0
  /\ closed = FALSE
  /\ waiting = FALSE
  /\ timeIsSynced = FALSE
  /\ lastSync = 0
  /\ clock = 0
  /\ sync = NoSync

InitSetup == BeforeInitTime /\ probe = NoProbe

\* a year and a month are chosen for the calendar functions
InitCalendar ==
  /\ BeforeInitTime
  /\ \E y \in FirstYear..LastYear, mo \in 1..12 :
       probe = [NoProbe EXCEPT !.year = y, !.month = mo]

\* the calendar functions over the dates of FirstYear .. LastYear
NextCalendar == ProbeDate
SpecCalendar == InitCalendar /\ [][NextCalendar]_vars

\* the clock: initTime() in setup(), then the hourly check of loop() as
\* time passes with no client
NextTime == InitTime \/ LoopIdle \/ ClockTick \/ ApiGetTime
SpecTime == InitSetup /\ [][NextTime]_vars

(* ------------------------ reference definitions ------------------------ *)
\* the body bytes that follow the target part's headers
PayloadStream == SubSeq(req.body, payStart + 1, Len(req.body))

\* the marker occupies offsets k+1..k+Len(marker) of stream
MarkerAt(stream, marker, k) ==
  /\ k + Len(marker) <= Len(stream)
  /\ SubSeq(stream, k + 1, k + Len(marker)) = marker

\* payload length by a reference that holds the whole stream: the number of
\* bytes before the first occurrence of the marker
RefPayloadLen(stream, marker) ==
  IF \E k \in 0..Len(stream) : MarkerAt(stream, marker, k)
  THEN CHOOSE k \in 0..Len(stream) :
         /\ MarkerAt(stream, marker, k)
         /\ \A j \in 0..(k - 1) : ~MarkerAt(stream, marker, j)
  ELSE Len(stream)

\* payload length of the upload in progress
PayLen == RefPayloadLen(PayloadStream, BoundaryCRLF(req.ctype))
MarkerLen == Len(BoundaryCRLF(req.ctype))

\* payload streaming has begun in this upload
Streaming == fmf = "done"

\* the session check of the connection being served has been made
Routed == pc # "route" /\ call.op = "isSessionValid"

\* phase of the upload: 1 AWAITING_BOUNDARY, 2 IN_TARGET_HEADERS,
\* 3 STREAMING_PAYLOAD, 4 TERMINATED, 0 before the handler is entered
Phase ==
  IF pc = "find" THEN (IF fmf = "thdr" THEN 2 ELSE 1)
  ELSE IF pc = "payload" THEN 3
  ELSE IF pc = "restart" \/ (pc = "accept" /\ response # NoResponse) THEN 4
  ELSE 0

\* the slots of store p whose entry holds value v
Holders(p, v) ==
  {i \in 0..(MAX_KEYS - 1) : KeyNames[i] \in DOMAIN p /\ p[KeyNames[i]] = v}

\* the slots that hold no entry in store p
FreeSlots(p) == {i \in 0..(MAX_KEYS - 1) : KeyNames[i] \notin DOMAIN p}

\* store p with the entry key -> value added or replaced
WithEntry(p, key, value) == (key :> value) @@ p

\* store p without the entry of key
WithoutEntry(p, key) == [k \in DOMAIN p \ {key} |-> p[k]]

\* the text k is the letter k followed by the decimal numeral, without
\* leading zero, of a number below 100
IsSlotKey(k) ==
  /\ Len(k) \in {2, 3}
  /\ k[1] = KK
  /\ \A j \in 2..Len(k) : k[j] >= D0 /\ k[j] <= D0 + 9
  /\ Len(k) = 3 => k[2] # D0

\* the number a slot key names
SlotIndex(k) == IF Len(k) = 2 THEN k[2] - D0 ELSE 10 * (k[2] - D0) + (k[3] - D0)

\* the string a JSON string body e stands for; a quote that is not escaped
\* gives a string no stored value equals
RECURSIVE JsonUnescapeFrom(_, _)
JsonUnescapeFrom(e, i) ==
  IF i > Len(e) THEN <<>>
  ELSE LET marks == {k \in i..Len(e) : e[k] = BSL}
           plain(lo, hi) == [j \in 1..(hi - lo + 1) |->
                               IF e[lo + j - 1] = QUOTE THEN -1 ELSE e[lo + j - 1]]
       IN IF marks = {} THEN plain(i, Len(e))
          ELSE LET k == CHOOSE m \in marks : \A j \in marks : m <= j
                   c == IF k < Len(e) THEN e[k + 1] ELSE -1
               IN plain(i, k - 1) \o
                  << IF c = NN THEN LF ELSE IF c = RR THEN CR ELSE IF c = TT THEN TAB
                     ELSE IF c = QUOTE \/ c = BSL THEN c ELSE -1 >> \o
                  JsonUnescapeFrom(e, k + 2)

JsonUnescape(e) == JsonUnescapeFrom(e, 1)

\* byte k of text w is a newline that ends a blank line: every byte between
\* the newline before it (or the start) and it is a carriage return
EndsBlankLine(w, k) ==
  /\ w[k] = LF
  /\ LET feeds == {j \in 1..(k - 1) : w[j] = LF}
         start == IF feeds = {} THEN 1 ELSE (CHOOSE j \in feeds : \A i \in feeds : i <= j) + 1
     IN \A i \in start..(k - 1) : w[i] = CR

\* offset of the newline that ends the first blank line of w, Len(w) + 1 if
\* w has no blank line
HeaderEnd(w) ==
  LET ends == {k \in 1..Len(w) : EndsBlankLine(w, k)}
  IN IF ends = {} THEN Len(w) + 1
     ELSE CHOOSE k \in ends : \A j \in ends : k <= j

\* session and store state are as they were when the connection was accepted,
\* and so is the time state as long as loop() has not returned
Untouched ==
  /\ currentSession = snap.session
  /\ prefs = snap.prefs
  /\ call = snap.call
  /\ api = snap.api
  /\ pc = "parse" =>
       /\ timeIsSynced = snap.timeIsSynced
       /\ lastSync = snap.lastSync
       /\ clock = snap.clock

\* the civil calendar: days from 1970-01-01 to the date, counted by 400-year
\* eras with the year taken to begin in March
RefDays(y, mo, d) ==
  LET yy == IF mo <= 2 THEN y - 1 ELSE y
      era == yy \div 400
      yoe == yy - era * 400
      mp == IF mo > 2 THEN mo - 3 ELSE mo + 9
      doy == (153 * mp + 2) \div 5 + d - 1
      doe == yoe * 365 + yoe \div 4 - yoe \div 100 + doy
  IN era * 146097 + doe - 719468

\* seconds from 1970-01-01T00:00:00Z to the date and time
RefEpoch(y, mo, d, h, mi, s) == RefDays(y, mo, d) * 86400 + h * 3600 + mi * 60 + s

\* the week day of a date, 0 = Sunday; 1970-01-01 was a Thursday
RefWeekday(y, mo, d) == (RefDays(y, mo, d) + 4) % 7

\* the number of days of a month
RefMonthLength(y, mo) ==
  IF mo = 12 THEN 31 ELSE RefDays(y, mo + 1, 1) - RefDays(y, mo, 1)

ValidDate(y, mo, d) == mo \in 1..12 /\ d \in 1..RefMonthLength(y, mo)

\* the last Sunday of a month
RefLastSunday(y, mo) ==
  CHOOSE d \in 1..RefMonthLength(y, mo) :
    /\ RefWeekday(y, mo, d) = 0
    /\ d + 7 > RefMonthLength(y, mo)

\* the body of the request w: the bytes after the blank line
RefBody(w) == SubSeq(w, HeaderEnd(w) + 1, Len(w))

\* the request being parsed is a login form with the right password and a
\* Content-Length within the limit
RightLogin ==
  /\ parser.contentLength \in 1..MaxKeyBody
  /\ RefBody(wire) = PasswordEq \o ADMIN_PASSWORD

\* what the claim says of a login request that has been answered
LoginOutcome ==
  /\ replied = 302
  /\ IF RightLogin
     THEN /\ redirect.location = "/"
          /\ redirect.cookie \in GeneratedTokens
          /\ redirect.cookie = currentSession.sessionId
          /\ currentSession.isAuthenticated
          /\ currentSession.lastActivity = call.at
          /\ call.op = "createSession"
     ELSE /\ redirect = [location |-> "/?error=1", cookie |-> "none"]
          /\ currentSession = snap.session

\* a line's text without its carriage returns
StripCR(s) ==
  LET NotCR(c) == c # CR
  IN SelectSeq(s, NotCR)

\* what a complete line t changes in the fields f: a line that begins with
\* GET, POST or DELETE and a space, and holds a second space, gives method
\* and path; a line that begins with a header prefix gives that header's value
RefLine(f, t) ==
  LET spaces == {k \in 1..Len(t) : t[k] = SP}
      s1 == CHOOSE k \in spaces : \A j \in spaces : k <= j
      later == {k \in spaces : k > s1}
      s2 == CHOOSE k \in later : \A j \in later : k <= j
      isRequest == \E m \in {MethodGet, MethodPost, MethodDelete} :
                     /\ Len(t) > Len(m)
                     /\ SubSeq(t, 1, Len(m)) = m
                     /\ t[Len(m) + 1] = SP
      has(prefix) == Len(t) >= Len(prefix) /\ SubSeq(t, 1, Len(prefix)) = prefix
      rest(prefix) == SubSeq(t, Len(prefix) + 1, Len(t))
  IN [method |-> IF isRequest /\ later # {} THEN SubSeq(t, 1, s1 - 1) ELSE f.method,
      path |-> IF isRequest /\ later # {} THEN SubSeq(t, s1 + 1, s2 - 1) ELSE f.path,
      contentLength |-> IF has(ContentLengthHdr) THEN ToInt(rest(ContentLengthHdr))
                        ELSE f.contentLength,
      contentType |-> IF has(ContentTypeHdr) THEN Trim(rest(ContentTypeHdr))
                      ELSE f.contentType,
      cookie |-> IF has(CookieHdr) THEN Trim(rest(CookieHdr)) ELSE f.cookie]

\* the fields after the complete lines of w from offset i up to the first
\* blank line, each line looked at once
RECURSIVE RefFields(_, _, _)
RefFields(w, i, f) ==
  LET feeds == {k \in i..Len(w) : w[k] = LF}
  IN IF feeds = {} THEN f
     ELSE LET e == CHOOSE k \in feeds : \A j \in feeds : k <= j
              t == StripCR(SubSeq(w, i, e - 1))
          IN IF t = <<>> THEN f ELSE RefFields(w, e + 1, RefLine(f, t))

RefParse(w) ==
  RefFields(w, 1, [method |-> <<>>, path |-> <<>>, contentLength |-> 0,
                   contentType |-> <<>>, cookie |-> <<>>])

\* the values loop() hands the router
Handed(p) ==
  [method |-> p.requestMethod, path |-> p.requestPath, contentLength |-> p.contentLength,
   contentType |-> p.contentType, cookie |-> p.cookieHeader]

\* the lines of body b as readLine returns them: a line begins at offset 1
\* or after a newline, ends before the next newline and holds no '\r'
LineStarts(b) == {1} \cup {k + 1 : k \in {j \in 1..(Len(b) - 1) : b[j] = LF}}
NextFeed(b, s) ==
  LET feeds == {k \in s..Len(b) : b[k] = LF}
  IN IF feeds = {} THEN Len(b) + 1 ELSE CHOOSE k \in feeds : \A j \in feeds : k <= j
LineAt(b, s) == StripCR(SubSeq(b, s, NextFeed(b, s) - 1))

\* the delimiter lines of b whose next line holds name="update"
TargetLines(b) ==
  {s \in LineStarts(b) :
     /\ NextFeed(b, s) < Len(b)
     /\ StartsWith(LineAt(b, s), Delim)
     /\ Contains(LineAt(b, NextFeed(b, s) + 1), UU)}

\* the number of bytes of b before the first payload byte of the first part
\* whose first header line holds name="update": up to and with the newline
\* of the blank line that ends that part's headers
RefTargetStart(b) ==
  LET s == CHOOSE t \in TargetLines(b) : \A u \in TargetLines(b) : t <= u
      blanks == {t \in LineStarts(b) : t > NextFeed(b, s) /\ NextFeed(b, t) <= Len(b)
                                        /\ LineAt(b, t) = <<>>}
  IN NextFeed(b, CHOOSE t \in blanks : \A u \in blanks : t <= u)

\* the last n elements of s, all of s when it has fewer
LastBytes(s, n) == SubSeq(s, IF Len(s) > n THEN Len(s) - n + 1 ELSE 1, Len(s))

(* ------------------------------- claims -------------------------------- *)
\* C1: once the closing marker has been found, no byte at or after the start
\* of the marker has been handed to Update.write (no marker byte is written,
\* however the body is split into reads).
C1_NoMarkerByteWritten ==
  (Streaming /\ lastChunk.seen) => flashEnd <= PayLen

\* C2: when the marker is split across two consecutive reads (the last read
\* starts inside the marker), the number of bytes handed to Update.write at
\* finalization equals the reference payload length.
C2_SplitMarkerCount ==
  (Streaming /\ lastChunk.seen /\ PayLen < lastChunk.start
     /\ lastChunk.start < PayLen + MarkerLen)
  => Len(flash) = PayLen

\* C3: when the marker lies entirely inside one read chunk, exactly the bytes
\* of that chunk before the marker are written, streaming stops, and nothing
\* at or after the marker is written.
C3_MarkerInOneChunk ==
  (Streaming /\ Len(lastChunk.bytes) > 0 /\ lastChunk.start <= PayLen
     /\ PayLen + MarkerLen <= lastChunk.start + Len(lastChunk.bytes))
  => /\ lastChunk.wrote = SubSeq(lastChunk.bytes, 1, PayLen - lastChunk.start)
     /\ pc # "payload"
     /\ endCalls = 1
     /\ flashEnd <= PayLen
     /\ Len(flash) = PayLen

\* the marker was found inside one chunk of the long payload, after the
\* window had slid, with payload bytes before it and body bytes after it
C3_Witness ==
  /\ Streaming /\ lastChunk.seen
  /\ lastChunk.start <= PayLen
  /\ Len(lastChunk.wrote) > 0
  /\ lastChunk.start + Len(lastChunk.bytes) > PayLen + MarkerLen
  /\ PayLen + MarkerLen > WIN_SIZE
  /\ Len(window) = WIN_SIZE

\* C4: a disconnect during payload streaming, before the marker was found,
\* leaves the writer un-finalized: Update.end is not called, no restart.
C4_DropLeavesUnfinalized ==
  dropped => (endCalls = 0 /\ pc # "restart")

\* C5: ESP.restart is reached only after Update.end(true) returned true; a
\* failure of the content-type check, the boundary extraction, the field
\* search, Update.begin or Update.end sends a 500 response and returns to
\* loop() without restarting.
C5_RestartOnlyAfterEndOk ==
  /\ pc = "restart" => (lastEnd = "ok" /\ endCalls = 1 /\ response.status = 200)
  /\ ( \/ failure # "none"
       \/ lastEnd = "fail"
       \/ (Routed /\ call.ret /\ req.ctype.mime # "multipart/form-data")
       \/ (Routed /\ call.ret /\ ~req.ctype.hasBoundary) )
     => (response.status = 500 /\ pc = "accept")

\* Update.end failed in the second connection of the run: 500, no restart
C5_Witness ==
  /\ lastEnd = "fail"
  /\ response.status = 500
  /\ pc = "accept"
  /\ conns = 2

\* C6: POST /doupdate with a token isSessionValid rejects is answered 401,
\* no body byte is read, and Update.begin, write and end are not called.
C6_UnauthorizedReadsNothing ==
  (Routed /\ ~call.ret)
  => /\ response.status = 401
     /\ pos = 0
     /\ beginCalls = 0
     /\ endCalls = 0
     /\ flash = <<>>
     /\ updState = "idle"

\* the stored token, idle for longer than the timeout, was rejected while
\* body bytes were waiting in the socket
C6_Witness ==
  /\ Routed /\ ~call.ret
  /\ call.tok = "t1" /\ call.pre.sessionId = "t1"
  /\ sent > 0
  /\ response.status = 401

\* C7: the phases of an upload are passed in the order AWAITING_BOUNDARY,
\* IN_TARGET_HEADERS, STREAMING_PAYLOAD, TERMINATED and none is re-entered;
\* Update.begin is called at most once, after the target part's headers were
\* consumed up to the blank line; every Update.write falls between a
\* successful begin and the end; Update.end is called at most once.
C7_PhaseInv ==
  /\ beginCalls <= 1
  /\ endCalls <= 1
  /\ ~writeOutside
  /\ beginCalls = 1 =>
       /\ Streaming
       /\ payStart >= 4
       /\ SubSeq(req.body, payStart - 3, payStart) = CRLF \o CRLF
       /\ \E k \in 1..payStart : req.body[k] = UU
  /\ Len(flash) > 0 => beginCalls = 1
  /\ pc = "payload" => (updState = "running" /\ endCalls = 0)
  /\ endCalls = 1 => (beginCalls = 1 /\ Phase = 4)
  /\ Phase \in {1, 2} => (beginCalls = 0 /\ endCalls = 0 /\ Len(flash) = 0)

C7_PhaseOrder ==
  /\ []C7_PhaseInv
  /\ [][(conns' = conns /\ pc # "restart") =>
          /\ Phase' >= Phase
          /\ (Phase' # Phase => (Phase' = Phase + 1 \/ Phase' = 4 \/ Phase = 0))
          /\ beginCalls' >= beginCalls
          /\ endCalls' >= endCalls
          /\ (Len(flash') > Len(flash) => (updState = "running" /\ endCalls = 0))]_vars

\* an upload went through every phase: begin, writes, end
C7_Witness ==
  /\ beginCalls = 1
  /\ endCalls = 1
  /\ Len(flash) > 0
  /\ Phase = 4

\* C8: isSessionValid(token) returns true exactly when the token is
\* non-empty, equals the stored sessionId, the session is authenticated and
\* the time elapsed since lastActivity, as the device measures it (the
\* unsigned difference millis() - lastActivity), is at most SESSION_TIMEOUT.
C8_ValidIff ==
  call.op = "isSessionValid" =>
    (call.ret <=> /\ call.tok # ""
                  /\ call.tok = call.pre.sessionId
                  /\ call.pre.isAuthenticated
                  /\ Elapsed(call.pre, call.at) <= SESSION_TIMEOUT)

\* a call exactly SESSION_TIMEOUT after the last activity returned true
C8_Witness ==
  /\ call.op = "isSessionValid"
  /\ call.ret
  /\ Elapsed(call.pre, call.at) = SESSION_TIMEOUT

\* C9: a call that returns true sets lastActivity to the current time, and
\* a call with the stored token made within SESSION_TIMEOUT of the previous
\* successful call (or of createSession), in an unbroken sequence of such
\* calls, returns true.
C9_SlidingExpiration ==
  call.op = "isSessionValid" =>
    /\ call.ret => currentSession.lastActivity = call.at
    /\ (call.tok # "" /\ call.tok = call.pre.sessionId /\ call.chainOK
          /\ call.idle <= SESSION_TIMEOUT) => call.ret

\* the third successful validation in a row, each a full SESSION_TIMEOUT
\* after the one before
C9_Witness ==
  /\ call.op = "isSessionValid"
  /\ call.ret
  /\ call.streak >= 2
  /\ call.idle = SESSION_TIMEOUT
  /\ call.at = 3 * SESSION_TIMEOUT

\* C10: a call with the stored token after more than SESSION_TIMEOUT of
\* idleness (as the device measures it) returns false and leaves
\* isAuthenticated false, and from then on every call returns false for
\* every token and clock value until the next createSession.
C10_ExpiryLatches ==
  /\ expired => ~currentSession.isAuthenticated
  /\ call.op = "isSessionValid" =>
       /\ (call.tok = call.pre.sessionId
             /\ Elapsed(call.pre, call.at) > SESSION_TIMEOUT)
          => (~call.ret /\ ~currentSession.isAuthenticated)
       /\ call.expired => ~call.ret

\* after the expiry, a call with the stored token at a clock value that is
\* again within SESSION_TIMEOUT of lastActivity (the counter has wrapped)
C10_Witness ==
  /\ call.op = "isSessionValid"
  /\ call.expired
  /\ call.tok # "" /\ call.tok = call.pre.sessionId
  /\ Elapsed(call.pre, call.at) <= SESSION_TIMEOUT
  /\ ~call.ret

\* C11: isSessionValid returns false for the stored token whenever the real
\* time elapsed since lastActivity was last stamped exceeds SESSION_TIMEOUT,
\* however long that time is (also when millis() has wrapped since).
C11_RealTimeExpiry ==
  (call.op = "isSessionValid" /\ call.tok # "" /\ call.tok = call.pre.sessionId
     /\ call.idle > SESSION_TIMEOUT)
  => ~call.ret

\* C12: after destroySession the stored token is empty and isAuthenticated
\* is false, and isSessionValid returns false for every token (the one valid
\* just before, any other, the empty one) until the next createSession.
C12_DestroyInvalidates ==
  /\ destroyed => (currentSession.sessionId = "" /\ ~currentSession.isAuthenticated)
  /\ (call.op = "isSessionValid" /\ call.destroyed) => ~call.ret
  /\ destroyed => \A tok \in Tokens : ~isSessionValid(currentSession, tok, now).ret

\* the token that validated until destroySession was presented after it
C12_Witness ==
  /\ call.op = "isSessionValid"
  /\ call.destroyed
  /\ call.prior # "" /\ call.tok = call.prior
  /\ call.streak = 0 /\ call.idle = 0
  /\ ~call.ret

\* C13: createSession overwrites the single slot with the generated token,
\* marks it authenticated and stamps lastActivity; the token of the session
\* it replaced (being different) no longer validates, and in no state do two
\* different tokens both pass isSessionValid.
C13_SingleSlot ==
  /\ call.op = "createSession" =>
        currentSession = [sessionId |-> call.tok, lastActivity |-> call.at,
                          isAuthenticated |-> TRUE]
  /\ (call.op = "isSessionValid" /\ call.tok = call.prior
        /\ call.prior # call.pre.sessionId) => ~call.ret
  /\ \A a, b \in Tokens :
        (isSessionValid(currentSession, a, now).ret
           /\ isSessionValid(currentSession, b, now).ret) => a = b

\* the token of the session a second createSession replaced was presented
\* while the new session was live
C13_Witness ==
  /\ call.op = "isSessionValid"
  /\ call.prior \in GeneratedTokens /\ call.tok = call.prior
  /\ call.pre.sessionId \in GeneratedTokens /\ call.pre.sessionId # call.prior
  /\ call.pre.isAuthenticated
  /\ ~call.destroyed
  /\ ~call.ret

\* C14: a successful add (POST /api/keys or POST /api/insert) stores the
\* value under k<i>, i being the lowest index in [0,100) that held no entry
\* just before the call, returns that key and changes nothing else, after
\* whatever adds and removes came before.
C14_LowestFreeIndex ==
  (api.op \in {"add", "insert"} /\ api.status = 200)
  => /\ FreeSlots(api.pre) # {}
     /\ \E i \in FreeSlots(api.pre) :
          /\ \A j \in FreeSlots(api.pre) : i <= j
          /\ api.key = <<KK>> \o Decimal(i)
          /\ prefs = WithEntry(api.pre, api.key, api.value)

\* k3 was deleted from the store holding k0..k3, and the add that followed
\* was given k3
C14_Witness ==
  /\ fillRun = 4 /\ ops = 2
  /\ api.op \in {"add", "insert"} /\ api.status = 200
  /\ DOMAIN api.pre = {KeyNames[0], KeyNames[1], KeyNames[2]}
  /\ api.key = <<KK, D0 + 3>>

\* C15: from the empty store 100 adds in a row each succeed and occupy
\* k0..k99 in order; an add made while all 100 slots hold an entry is
\* answered 400 with success false (the capacity message when its value is
\* valid) and leaves every entry unchanged.
C15_Capacity ==
  /\ Filling =>
       /\ fillRun <= MAX_KEYS
       /\ DOMAIN prefs = {KeyNames[i] : i \in 0..(fillRun - 1)}
       /\ \A k \in DOMAIN prefs : prefs[k] = FillValue
       /\ fillRun > 0 => (api.status = 200 /\ api.success /\ api.key = KeyNames[fillRun - 1])
  /\ (api.op \in {"add", "insert"} /\ Cardinality(DOMAIN api.pre) = MAX_KEYS)
     => /\ api.status = 400
        /\ ~api.success
        /\ prefs = api.pre
        /\ (api.parsed /\ Len(api.value) \in 1..MAX_VALUE_LENGTH)
           => api.msg = "Maximum keys reached (100/100)"

\* the 101st add in a row was refused for lack of a slot
C15_Witness ==
  /\ fillRun = MAX_KEYS /\ ops = 1
  /\ api.op = "add" /\ api.req = FillRequest
  /\ api.status = 400
  /\ api.msg = "Maximum keys reached (100/100)"
  /\ Cardinality(DOMAIN prefs) = MAX_KEYS

\* C16: every stored key is k<i> with 0 <= i < 100, no slot is named by two
\* keys, countKeys() is the number of entries and at most 100, and every
\* stored value has between 1 and 128 characters.
C16_StoreInvariant ==
  /\ \A k \in DOMAIN prefs :
       /\ IsSlotKey(k)
       /\ Len(prefs[k]) >= 1
       /\ Len(prefs[k]) <= MAX_VALUE_LENGTH
  /\ \A k1, k2 \in DOMAIN prefs : SlotIndex(k1) = SlotIndex(k2) => k1 = k2
  /\ countKeys(prefs) = Cardinality(DOMAIN prefs)
  /\ countKeys(prefs) <= MAX_KEYS

\* the store is full again after a delete, and holds a value of 128 characters
C16_Witness ==
  /\ Cardinality(DOMAIN prefs) = MAX_KEYS
  /\ ops >= 2
  /\ \E k \in DOMAIN prefs : Len(prefs[k]) = MAX_VALUE_LENGTH

\* C17: an add whose decoded value is empty or longer than 128 characters
\* is answered 400 and leaves the store unchanged; a value of exactly 128
\* characters is stored when a slot is free.
C17_ValueLength ==
  (api.op \in {"add", "insert"} /\ api.parsed)
  => /\ (Len(api.value) = 0 \/ Len(api.value) > MAX_VALUE_LENGTH)
        => (api.status = 400 /\ ~api.success /\ prefs = api.pre)
     /\ (Len(api.value) = MAX_VALUE_LENGTH /\ FreeSlots(api.pre) # {})
        => /\ api.status = 200
           /\ api.key \in DOMAIN prefs
           /\ api.key \notin DOMAIN api.pre
           /\ prefs[api.key] = api.value

\* a value of 129 characters was refused although slots were free
C17_Witness ==
  /\ api.op = "add" /\ api.parsed
  /\ api.req = Whole(FormValue(LongValue(MAX_VALUE_LENGTH + 1)))
  /\ Len(api.value) = MAX_VALUE_LENGTH + 1
  /\ api.status = 400
  /\ Cardinality(DOMAIN api.pre) = 4

\* C18 as stated: DELETE /api/keys and POST /api/remove answer 404 and
\* leave the store unchanged whenever the key, respectively the value, is
\* not stored; otherwise DELETE /api/keys removes exactly the named key.
C18_NotFound ==
  /\ (api.op = "delete" /\ api.parsed /\ api.value \notin DOMAIN api.pre)
     => (api.status = 404 /\ prefs = api.pre)
  /\ (api.op = "remove" /\ api.parsed /\ \A k \in DOMAIN api.pre : api.pre[k] # api.value)
     => (api.status = 404 /\ prefs = api.pre)
  /\ (api.op = "delete" /\ api.parsed /\ api.value \in DOMAIN api.pre)
     => (api.status = 200 /\ prefs = WithoutEntry(api.pre, api.value))

\* C18 amended: POST /api/remove answers 404 for a value that is not stored
\* and is not empty after trimming; the empty value is answered 400; in both
\* cases the store is unchanged. DELETE /api/keys answers 404 for a key that
\* is not stored and otherwise removes exactly the named key.
C18_NotFoundNonEmpty ==
  /\ (api.op = "delete" /\ api.parsed /\ api.value \notin DOMAIN api.pre)
     => (api.status = 404 /\ prefs = api.pre)
  /\ (api.op = "remove" /\ api.parsed /\ Len(api.value) > 0
        /\ \A k \in DOMAIN api.pre : api.pre[k] # api.value)
     => (api.status = 404 /\ prefs = api.pre)
  /\ (api.op = "remove" /\ api.parsed /\ Len(api.value) = 0)
     => (api.status = 400 /\ prefs = api.pre)
  /\ (api.op = "delete" /\ api.parsed /\ api.value \in DOMAIN api.pre)
     => (api.status = 200 /\ prefs = WithoutEntry(api.pre, api.value))

\* a value that is not stored was searched in a store of four entries, after
\* k1 had been deleted from it
C18_Witness ==
  /\ api.op = "remove" /\ api.parsed
  /\ api.value = <<BB>>
  /\ api.status = 404
  /\ DOMAIN prefs = {KeyNames[0], KeyNames[2], KeyNames[3]}

\* C19: GET /api/keys and GET /api/print list every entry exactly once, with
\* its stored value, in strictly increasing order of the index, and report
\* as count the number of entries listed; the store is unchanged.
C19_Listing ==
  api.op \in {"keys", "print"}
  => /\ api.status = 200
     /\ api.count = Len(api.items)
     /\ {api.items[n].key : n \in 1..Len(api.items)} = DOMAIN prefs
     /\ \A n \in 1..(Len(api.items) - 1) :
          SlotIndex(api.items[n].key) < SlotIndex(api.items[n + 1].key)
     /\ \A n \in 1..Len(api.items) :
          JsonUnescape(api.items[n].value) = prefs[api.items[n].key]
     /\ prefs = api.pre

\* a listing of four entries with a gap at k1, one value holding a quote
C19_Witness ==
  /\ api.op = "keys"
  /\ api.count = 4
  /\ KeyNames[1] \notin DOMAIN prefs
  /\ \E k \in DOMAIN prefs : prefs[k] = <<QUOTE, AA>>

\* C20: a handler is dispatched only by the newline that ends a blank line;
\* as long as the parser has not read that newline no handler has run, no
\* response is written and session, store and time state are unchanged, and
\* when the connection ends before it (the client has disconnected and
\* every byte it delivered is read) the loop ends and the client is stopped.
C20_NoDispatchBeforeBlankLine ==
  accepted > 0 =>
    /\ handler # "none" => consumed = HeaderEnd(wire)
    /\ consumed < HeaderEnd(wire) =>
         /\ handler = "none"
         /\ replied = 0
         /\ Untouched
         /\ pc \in {"parse", "accept"}
         /\ pc = "accept" => (stopped /\ peerClosed /\ consumed = arrived)

\* an operator is logged in; the client of the next connection sent
\* GET /logout up to the byte before the final newline and
\* disconnected: the connection was stopped and nothing else happened
C20_Witness ==
  /\ accepted = 2
  /\ pc = "accept" /\ stopped
  /\ handler = "none"
  /\ consumed = HeaderEnd(wire) - 1
  /\ parser.requestPath = PathLogout
  /\ wire = RequestText(MethodGet, PathLogout, <<>>, <<>>)
  /\ currentSession.isAuthenticated

\* C21: whatever the year, the day and the hour, isDST is true in each of
\* the months April to September and false in January, February, November
\* and December, and it yields a boolean for every month from 1 to 12.
C21_SummerWinter ==
  probe.day # 0 =>
    /\ \A h \in 0..23 : probe.dst[h] \in BOOLEAN
    /\ probe.month \in 4..9 => \A h \in 0..23 : probe.dst[h]
    /\ probe.month \in {1, 2, 11, 12} => \A h \in 0..23 : ~probe.dst[h]

\* isDST was applied to the last hour of 30 September 2024 and said true
C21_Witness ==
  /\ probe.year = 2024 /\ probe.month = 9 /\ probe.day = 30
  /\ probe.dst[23]

\* C22: in March and October the last Sunday isDST computes is the last
\* Sunday of the civil calendar; in March isDST is false before it and on it
\* before hour 2, true from then on; in October it is true before it and on
\* it before hour 3, false from then on.
C22_LastSunday ==
  (probe.day # 0 /\ probe.month \in {3, 10}) =>
    LET L == RefLastSunday(probe.year, probe.month)
    IN /\ probe.lastSunday = L
       /\ \A h \in 0..23 :
            probe.dst[h] = IF probe.month = 3
                           THEN ~(probe.day < L \/ (probe.day = L /\ h < 2))
                           ELSE (probe.day < L \/ (probe.day = L /\ h < 3))

\* isDST was applied to 31 March 2024, the last Sunday of the month: false
\* at hour 1, true at hour 2
C22_Witness ==
  /\ probe.year = 2024 /\ probe.month = 3 /\ probe.day = 31
  /\ probe.lastSunday = 31
  /\ ~probe.dst[1] /\ probe.dst[2]

\* C23: for every date of 2023 and of 2024 the epoch computed from the date
\* and a time of day is the number of seconds since 1970-01-01T00:00:00Z,
\* and for every date of the years 1970 to 2037 the sum days * 86400 +
\* h * 3600 + m * 60 + s stays within a signed 32-bit long, whatever the time
\* of day.
C23_Epoch ==
  (probe.day # 0 /\ ValidDate(probe.year, probe.month, probe.day)) =>
    /\ probe.year <= LastLongYear => probe.fits
    /\ probe.year \in {2023, 2024} =>
         /\ probe.gmtEpoch = RefEpoch(probe.year, probe.month, probe.day, 0, 0, 0)
         /\ \A h \in {0, 1, 12, 23}, mi \in {0, 59}, s \in {0, 59} :
              GmtEpoch(probe.year, probe.month, probe.day, h, mi, s)
                = RefEpoch(probe.year, probe.month, probe.day, h, mi, s)

\* the epoch was computed for midnight of 1 March 2024
C23_Witness ==
  /\ probe.year = 2024 /\ probe.month = 3 /\ probe.day = 1
  /\ probe.fits
  /\ probe.gmtEpoch = 1709251200

\* C24: a run of syncTimeViaHTTP that fails (the connection is refused, no
\* answer comes within the wait, the answer has no Date header, or its Date
\* header cannot be parsed into day, one of the twelve month names, year,
\* hour, minute and second) returns false, does not call settimeofday and
\* leaves timeIsSynced as it was.
C24_FailedSyncKeepsState ==
  (sync.from # "none" /\ sync.resp \in BadResponses \cup {Refused}) =>
    /\ ~sync.res.ret
    /\ ~sync.res.set
    /\ clock = sync.preClock
    /\ timeIsSynced = sync.pre

\* C26: after a successful sync timeIsSynced is true and the installed epoch
\* is the GMT epoch of the Date header plus 7200 when isDST, applied to the
\* year, month, day and GMT hour of the header, is true, plus 3600 otherwise.
C26_InstalledEpoch ==
  (sync.from # "none" /\ sync.res.ret) =>
    /\ timeIsSynced
    /\ sync.res.set
    /\ clock = sync.res.gmtEpoch + (IF sync.res.inDST THEN 7200 ELSE 3600)
    /\ sync.resp.of # NoDate =>
         LET f == sync.resp.of
         IN clock = RefEpoch(f.year, f.month, f.day, f.hour, f.min, f.sec)
                      + (IF isDST(f.year, f.month, f.day, f.hour) THEN 7200 ELSE 3600)

\* the header said 31 March 2024 02:00:00 GMT: the clock is set two hours
\* ahead of it
C26_Witness ==
  /\ sync.resp = GoodResponse(Date(2024, 3, 31, 2, 0, 0))
  /\ sync.res.ret
  /\ timeIsSynced
  /\ clock = 1711850400 + 7200

\* C25: loop() calls syncTimeViaHTTP only when timeIsSynced is false and more
\* than an hour has passed since the previous hourly check, and only at the
\* top of a pass, between connections: while a request is being serviced no
\* attempt is made.
C25_ResyncOnlyUnsyncedHourly ==
  /\ sync.from = "loop" =>
       /\ ~sync.pre
       /\ (sync.at - sync.since) % MillisModulus > SYNC_INTERVAL
       /\ sync.pcAt = "accept"
  /\ (accepted > 0 /\ pc # "accept") => sync = snap.sync

\* a login was serviced at boot time, more than an hour went by, and the
\* next pass of loop() tried to sync
C25_Witness ==
  /\ sync.from = "loop"
  /\ sync.at = SYNC_INTERVAL + 1
  /\ accepted = 1 /\ handler = "login" /\ stopped
  /\ currentSession.isAuthenticated /\ currentSession.lastActivity = 0

\* C27: POST /login with the right password creates a session and answers
\* 302 to / with a Set-Cookie that carries the sessionId just stored; with a
\* wrong password, no password field or a Content-Length outside 1..256 it
\* answers 302 to /?error=1 without Set-Cookie and leaves the session as it
\* was.
C27_Login == (handler = "login" /\ stopped) => LoginOutcome

\* C28: GET /logout needs no authentication: whatever cookie the request
\* carries, or none, the session is destroyed, so that no token validates
\* after it, the one that validated before included.
C28_LogoutDestroys ==
  (/\ accepted > 0 /\ stopped /\ consumed = HeaderEnd(wire)
   /\ parser.requestMethod = MethodGet /\ parser.requestPath = PathLogout) =>
    /\ handler = "logout"
    /\ call.op = "destroySession"
    /\ currentSession.sessionId = ""
    /\ ~currentSession.isAuthenticated
    /\ \A tok \in Tokens : ~isSessionValid(currentSession, tok, now).ret

\* a logout request with a cookie the device never issued has ended a
\* session whose token validated when the connection was accepted
C28_Witness ==
  /\ handler = "logout" /\ stopped
  /\ extractCookie(parser.cookieHeader) = TokenText["zz"]
  /\ snap.session.isAuthenticated
  /\ isSessionValid(snap.session, snap.session.sessionId, now).ret
  /\ ~isSessionValid(currentSession, snap.session.sessionId, now).ret

\* C29: connections are serviced one at a time: a connection is accepted only
\* when the previous one was stopped, at most one handler is dispatched for a
\* connection, the connection is stopped in the step in which that handler
\* returns, the session and the store change only in the step of the one
\* handler, and the time state only between two connections.
C29_OneAtATime ==
  [][
     /\ accepted' # accepted =>
          /\ pc = "accept" /\ (accepted = 0 \/ stopped)
          /\ accepted' = accepted + 1 /\ handler' = "none" /\ ~stopped'
     /\ (handler' # handler /\ handler' # "none") =>
          (handler = "none" /\ pc = "parse" /\ ~stopped /\ accepted' = accepted)
     /\ (handler = "none" /\ handler' \notin {"none", "doupdate"}) =>
          (stopped' /\ pc' = "accept")
     /\ (currentSession' # currentSession \/ prefs' # prefs) =>
          (handler = "none" /\ handler' # "none" /\ pc = "parse")
     /\ (timeIsSynced' # timeIsSynced \/ lastSync' # lastSync \/ clock' # clock) =>
          (pc = "accept" /\ (accepted = 0 \/ stopped))
  ]_vars

\* a second connection was accepted after the handler of the first, a login,
\* returned, and its own handler has returned too
C29_Witness ==
  /\ accepted = 2 /\ stopped /\ pc = "accept"
  /\ handler \notin {"none", "doupdate", "login"}
  /\ snap.call.op = "createSession"
  /\ snap.session.isAuthenticated

\* C30: once the client has disconnected while the upload handler is reading
\* the multipart body, in the header search or in the payload loop, the
\* handler eventually returns (or restarts the device after a completed
\* update), so that loop() can accept the next connection.
C30_DisconnectReturns ==
  (closed /\ pc \in {"find", "payload"}) ~> (pc \in {"accept", "restart"})

\* C31: when the blank line is reached, the method, path, Content-Length,
\* Content-Type and Cookie values of the byte-at-a-time parser are those of a
\* parser that looks at each complete line once.
C31_SameAsLineParser ==
  handler # "none" => Handed(parser) = RefParse(wire)

\* a block of three lines was parsed: a request line with two spaces in a
\* row, a Content-Length with a letter after the digit, a Content-Type with
\* spaces around its value
C31_Witness ==
  /\ handler # "none"
  /\ consumed = Len(wire)
  /\ parser.requestMethod = MethodPost
  /\ parser.requestPath = <<>>
  /\ parser.contentLength = 7
  /\ parser.contentType = MultipartFormData

\* C32: for a body in which other parts precede the part whose first header
\* line holds name="update", findMultipartField does not fail and does not
\* read past that part's headers, and when it has returned true the stream
\* stands at the part's first payload byte.
C32_FieldFound ==
  TargetLines(req.body) # {} =>
    /\ failure # "field"
    /\ pc = "find" => (pos < RefTargetStart(req.body) /\ ~waiting)
    /\ fmf = "done" =>
         /\ pos = RefTargetStart(req.body)
         /\ payStart = RefTargetStart(req.body)
         /\ beginCalls = 1

\* the field was found behind two other parts, the second with a line
\* holding name="update" in its content
C32_Witness ==
  /\ fmf = "done"
  /\ beginCalls = 1
  /\ req.body = Part(OtherHdrs \o <<UU>> \o CRLF, <<VV>>)
                  \o Part(OtherHdrs, <<VV>> \o CRLF \o <<UU>>)
                  \o Part(TargetHdrs, <<XX>>) \o CloseDelim
  /\ payStart = Len(req.body) - Len(<<XX>> \o CRLF \o CloseDelim)

\* C33: the window holds the most recent min(n, 128) bytes of the n body
\* bytes the payload loop has scanned, in arrival order, whatever the reads
\* were; the loop never reads on past a complete marker, and when it stops on
\* a match the last byte scanned is the one that completes the first
\* occurrence of the marker.
C33_StopsAtFirstMarker ==
  Streaming =>
    IF lastChunk.seen
    THEN /\ pc # "payload"
         /\ window = LastBytes(SubSeq(PayloadStream, 1, PayLen + MarkerLen), WIN_SIZE)
    ELSE /\ pos - payStart < PayLen + MarkerLen
         /\ window = LastBytes(SubSeq(PayloadStream, 1, pos - payStart), WIN_SIZE)

\* a marker as long as the window was found although the read before the
\* last one ended inside it
C33_Witness ==
  /\ Streaming /\ lastChunk.seen
  /\ MarkerLen = WIN_SIZE
  /\ PayLen < lastChunk.start
  /\ lastChunk.start < PayLen + MarkerLen
  /\ window = BoundaryCRLF(req.ctype)

\* C34: while the payload is streamed, what has been handed to Update.write
\* is, byte for byte and in order, the beginning of the body stream that
\* follows the target part's headers; every write continues where the last
\* one ended, and written is the number of bytes handed over.
C34_WrittenIsPrefix ==
  Streaming =>
    /\ Len(flash) <= Len(PayloadStream)
    /\ flash = SubSeq(PayloadStream, 1, Len(flash))
    /\ flash # <<>> => flashEnd = Len(flash)
    /\ written = Len(flash)
    /\ Len(flash) <= pos - payStart

\* a chunk was written whole behind an earlier one, of a payload that holds
\* both a carriage return and another byte
C34_Witness ==
  /\ Streaming
  /\ lastChunk.start > 0
  /\ lastChunk.wrote # <<>>
  /\ ~lastChunk.seen
  /\ Len(flash) = lastChunk.start + Len(lastChunk.wrote)
  /\ \E i, j \in 1..Len(flash) : flash[i] = CR /\ flash[j] = XX


\* C35: a call of isSessionValid that returns false because the token is
\* empty, differs from the stored one, or the session is not authenticated
\* leaves every field of the session as it was before the call.
C35_RejectLeavesSession ==
  (/\ call.op = "isSessionValid"
   /\ ~call.ret
   /\ \/ call.tok = ""
      \/ call.tok # call.pre.sessionId
      \/ ~call.pre.isAuthenticated)
  => currentSession = call.pre

\* a live session, idle for longer than the timeout, is presented another
\* token: the call fails and the session is still authenticated
C35_Witness ==
  /\ call.op = "isSessionValid"
  /\ ~call.ret
  /\ call.tok # ""
  /\ call.tok # call.pre.sessionId
  /\ call.pre.isAuthenticated
  /\ Elapsed(call.pre, call.at) > SESSION_TIMEOUT
  /\ currentSession.isAuthenticated
  /\ currentSession.lastActivity = call.pre.lastActivity


\* C36: an add or insert of a valid value into a store with a free slot
\* succeeds under a key of its own whether or not the value is already
\* stored; a successful POST /api/remove deletes exactly the entry of the
\* lowest index whose value equals the requested one and leaves every other
\* entry, those of the same value included, as it was.
C36_DuplicatesRemoveFirst ==
  /\ (/\ api.op \in {"add", "insert"}
      /\ api.parsed
      /\ ValueCheck(api.value) = ""
      /\ FreeSlots(api.pre) # {})
     => /\ api.status = 200
        /\ api.key \notin DOMAIN api.pre
        /\ prefs = WithEntry(api.pre, api.key, api.value)
  /\ (api.op = "remove" /\ api.status = 200)
     => /\ Holders(api.pre, api.value) # {}
        /\ \E i \in Holders(api.pre, api.value) :
             /\ \A j \in Holders(api.pre, api.value) : i <= j
             /\ api.key = <<KK>> \o Decimal(i)
        /\ prefs = WithoutEntry(api.pre, api.key)

\* k0..k3 held the same value and k0 was deleted: the remove of that value
\* took k1 and left k2 and k3 holding it
C36_Witness ==
  /\ fillRun = 4 /\ ops = 2
  /\ api.op = "remove" /\ api.status = 200
  /\ api.value = FillValue
  /\ Holders(api.pre, api.value) = {1, 2, 3}
  /\ api.key = KeyNames[1]
  /\ DOMAIN prefs = {KeyNames[2], KeyNames[3]}
  /\ prefs[KeyNames[2]] = api.value /\ prefs[KeyNames[3]] = api.value


\* the request r with its whole body arrived before the handler reads
Arrived(r) == [r EXCEPT !.avail = Len(r.body)]

\* what the handler of operation op does with request r on store p
HandlerOf(op, p, r) ==
  IF op = "add" THEN handleAPIAddKey(p, r)
  ELSE IF op = "insert" THEN handleAPIInsert(p, r)
  ELSE IF op = "delete" THEN handleAPIDeleteKey(p, r)
  ELSE handleAPIRemove(p, r)

\* C37: the outcome of a body-carrying request depends only on the bytes of
\* the request, not on how many of them had arrived when the handler read:
\* the store and the answer are those of the same request with its whole
\* body arrived.
C37_TimingIndependent ==
  api.op \in {"add", "insert", "delete", "remove"}
  => /\ prefs = HandlerOf(api.op, api.pre, Arrived(api.req)).prefs
     /\ api.status = HandlerOf(api.op, api.pre, Arrived(api.req)).status
     /\ api.msg = HandlerOf(api.op, api.pre, Arrived(api.req)).msg
     /\ api.key = HandlerOf(api.op, api.pre, Arrived(api.req)).key


\* C38: the timezone GET /api/time reports right after a successful sync
\* agrees with the offset that sync added: CEST exactly when the installed
\* epoch is the GMT epoch plus 7200 seconds.
C38_FlagMatchesOffset ==
  (/\ api.op = "time"
   /\ sync.res.set
   /\ api.count = sync.res.italianEpoch)
  => (api.msg = "CEST" <=> sync.res.italianEpoch = sync.res.gmtEpoch + 7200)


\* C39: timeIsSynced starts false, becomes true only in a call of
\* syncTimeViaHTTP that returns true, and is never set back; once it is true
\* syncTimeViaHTTP is not called and settimeofday installs nothing again.
C39_SyncedMonotone ==
  /\ ~timeIsSynced
  /\ [][
        /\ timeIsSynced => timeIsSynced'
        /\ timeIsSynced' # timeIsSynced => (sync' # sync /\ sync'.res.ret /\ sync'.res.set)
        /\ timeIsSynced => (sync' = sync /\ clock' = clock)
       ]_vars

\* the clock was set in setup(); an hourly check has come due since and
\* left the clock and the record of the last sync as they were
C39_Witness ==
  /\ timeIsSynced
  /\ sync.from = "setup" /\ sync.res.ret
  /\ lastSync > 0
  /\ clock = sync.res.italianEpoch


\* C40: an authenticated upload whose body has no part named update and
\* ends with the closing delimiter, the client keeping the connection open,
\* is eventually answered 'Firmware file not found' and the handler returns
\* without a call of Update.begin.
C40_NotFoundAnswered ==
  (/\ pc = "find"
   /\ TargetLines(req.body) = {}
   /\ sent = Len(req.body)
   /\ ~closed)
  ~> (/\ pc = "accept"
      /\ response = UpdateError("Firmware file not found")
      /\ beginCalls = 0)
====
